---- MODULE Spec2Model ----
(***************************************************************************)
(* Model of the inference layer of the quantile forecasting engine:        *)
(*   - InferenceService.validate_input_features / predict                   *)
(*   - InferenceService.predict_batch_parallel (thread pool, as_completed,  *)
(*     timeout handler, executor shutdown)                                  *)
(*   - the predict_batch endpoint that clamps the concurrency and builds    *)
(*     the batch response.                                                  *)
(*                                                                         *)
(* Python strings are modelled as sequences of tokens, so that string      *)
(* concatenation, join and substring containment are real operations.      *)
(* Python list indices 0..n-1 are kept; the TLA+ sequence that holds       *)
(* a list is read at i+1.                                                   *)
(***************************************************************************)
EXTENDS Integers, Sequences, FiniteSets, TLC

\* ------------------------------------------------------------------------
\* Bounds of the model
\* ------------------------------------------------------------------------
\* largest batch a request body carries (max_length of
\* BatchPredictionRequest.features, which by default equals
\* BATCH_INFERENCE_MAX_SIZE)
MaxN == 3
\* largest concurrency a request asks for (BatchPredictionRequest.concurrency)
MaxConcurrency == 3

\* ------------------------------------------------------------------------
\* Program constants (scaled)
\* ------------------------------------------------------------------------
BATCH_INFERENCE_CONCURRENCY == 2
BATCH_INFERENCE_MAX_SIZE == 3
BATCH_INFERENCE_TIMEOUT == 300

\* Python's None, for the optional values that are otherwise tuples or strings;
\* an optional record is kept as a tuple of zero or one element
None == <<>>

Some(x) == <<x>>

\* ------------------------------------------------------------------------
\* Python values and strings
\* ------------------------------------------------------------------------
\* a JSON value of a feature dict: a str, an int or null, with its printed form
StrVal(s) == [t |-> "str", v |-> s]

IntVal(s) == [t |-> "int", v |-> s]

NoneVal == [t |-> "NoneType", v |-> "None"]

\* float('nan') (numpy.nan)
NaNVal == [t |-> "float", v |-> "nan"]

\* str(val) inside an f-string
PyStr(val) == <<val.v>>

\* the decimal literals float() accepts among the modelled strings
NumericLiterals == {"5", "7"}

\* isinstance(val, (int, float))
IsNumber(val) == val.t \in {"int", "float"}

\* float(val) raises ValueError/TypeError
FloatRaises(val) == ~(val.t \in {"int", "float"} \/ (val.t = "str" /\ val.v \in NumericLiterals))

\* bool(val): None and the empty string are falsy
Truthy(val) == ~(val.t = "NoneType" \/ (val.t = "str" /\ val.v = ""))

RECURSIVE Join(_, _)
\* sep.join(parts) for a list of strings
Join(sep, parts) ==
    IF parts = <<>> THEN <<>>
    ELSE IF Len(parts) = 1 THEN parts[1]
    ELSE parts[1] \o sep \o Join(sep, Tail(parts))

\* `sub in s` for strings
Contains(s, sub) ==
    \E k \in 0..(Len(s) - Len(sub)) : SubSeq(s, k + 1, k + Len(sub)) = sub

\* s.startswith(prefix)
StartsWith(s, prefix) ==
    Len(s) >= Len(prefix) /\ SubSeq(s, 1, Len(prefix)) = prefix

\* the feature names the model knows, in sorted() order
NameOrder == <<"City", "Level", "Location", "YearsOfExperience">>

NameRank(x) == CHOOSE k \in 1..Len(NameOrder) : NameOrder[k] = x

RECURSIVE SortedSeq(_)
\* sorted(set_of_names), each name as a one-token string
SortedSeq(S) ==
    IF S = {} THEN <<>>
    ELSE LET m == CHOOSE x \in S : \A y \in S : NameRank(x) <= NameRank(y)
         IN <<<<m>>>> \o SortedSeq(S \ {m})

SeqToSet(s) == {s[k] : k \in 1..Len(s)}

\* lst[:k]
Take(lst, k) == SubSeq(lst, 1, IF Len(lst) < k THEN Len(lst) ELSE k)

\* ------------------------------------------------------------------------
\* The trained forecaster the service works on
\* ------------------------------------------------------------------------
\* f"{name}_Enc"
EncName(name) ==
    CASE name = "City" -> "City_Enc"
      [] name = "Level" -> "Level_Enc"
      [] name = "Location" -> "Location_Enc"
      [] OTHER -> "YearsOfExperience_Enc"

\* a loaded SalaryForecaster: encoders (dicts kept as key-ordered lists),
\* feature names, targets and quantile labels
Forecaster ==
    [ranked_encoders    |-> << [name |-> "Level", mapping |-> << <<"E3", 0>>, <<"E4", 1>> >>] >>,
     proximity_encoders |-> << [name |-> "Location", has_mapper |-> TRUE] >>,
     feature_names      |-> <<"Level_Enc", "Location_Enc", "YearsOfExperience">>,
     targets            |-> <<"BaseSalary">>,
     quantiles          |-> <<"p10", "p50">>]

\* a loaded SalaryForecaster whose proximity-encoded column is named City
ForecasterCity ==
    [ranked_encoders    |-> << [name |-> "Level", mapping |-> << <<"E3", 0>>, <<"E4", 1>> >>] >>,
     proximity_encoders |-> << [name |-> "City", has_mapper |-> TRUE] >>,
     feature_names      |-> <<"Level_Enc", "City_Enc", "YearsOfExperience">>,
     targets            |-> <<"BaseSalary">>,
     quantiles          |-> <<"p10", "p50">>]

\* list(d.keys()) of a dict kept as a list of entries
Keys(entries) == [k \in 1..Len(entries) |-> entries[k].name]

\* list(encoder.mapping.keys())
MappingKeys(mapping) == [k \in 1..Len(mapping) |-> mapping[k][1]]

\* model.ranked_encoders[col]
RankedEncoder(model, col) ==
    LET k == CHOOSE j \in 1..Len(model.ranked_encoders) : model.ranked_encoders[j].name = col
    IN model.ranked_encoders[k]

\* ------------------------------------------------------------------------
\* RankedCategoryEncoder.transform
\* ------------------------------------------------------------------------
\* the input of transform: a Series or list is one column, a DataFrame
\* a list of columns
Series(col) == [kind |-> "Series", columns |-> <<col>>]

DataFrame(cols) == [kind |-> "DataFrame", columns |-> cols]

\* the sentinel of an unknown category
UnknownRank == 0 - 1

\* mapping.get(val): the entry of the key equal to val, if there is one
Lookup(mapping, val) ==
    LET hits == {j \in 1..Len(mapping) : val.t = "str" /\ mapping[j][1] = val.v}
    IN IF hits = {} THEN <<>> ELSE <<mapping[CHOOSE j \in hits : TRUE][2]>>

\* Series.map(mapping): a value that is no key becomes NaN
SeriesMap(col, mapping) ==
    [k \in 1..Len(col) |->
        LET hit == Lookup(mapping, col[k])
        IN IF hit = <<>> THEN [nan |-> TRUE, v |-> 0] ELSE [nan |-> FALSE, v |-> hit[1]]]

\* Series.fillna(fill)
Fillna(col, fill) ==
    [k \in 1..Len(col) |-> IF col[k].nan THEN [nan |-> FALSE, v |-> fill] ELSE col[k]]

\* Series.astype(int) of a column without NaN
AsTypeInt(col) == [k \in 1..Len(col) |-> col[k].v]

\* fillna(0): an unknown category is given the lowest rank
transform_FillZero(mapping, X) ==
    AsTypeInt(Fillna(SeriesMap(X.columns[1], mapping), 0))

\* RankedCategoryEncoder.transform(X) of an encoder with this mapping
transform(mapping, X) ==
    LET col == X.columns[1]   \* X.iloc[:, 0] of a DataFrame, X itself otherwise
    IN AsTypeInt(Fillna(SeriesMap(col, mapping), UnknownRank))

\* ModelSchema(model)
ModelSchema(model) ==
    LET ranked == Keys(model.ranked_encoders)
        prox   == Keys(model.proximity_encoders)
        isNum(f) == /\ f \notin SeqToSet(ranked)
                    /\ f \notin SeqToSet(prox)
                    /\ f \notin {EncName(h) : h \in SeqToSet(ranked)}
                    /\ f \notin {EncName(h) : h \in SeqToSet(prox)}
    IN [ranked_features    |-> ranked,
        proximity_features |-> prox,
        numerical_features |-> SelectSeq(model.feature_names, isNum),
        all_feature_names  |-> model.feature_names,
        targets            |-> model.targets,
        quantiles          |-> model.quantiles]

\* ------------------------------------------------------------------------
\* InferenceService.validate_input_features
\* ------------------------------------------------------------------------
\* the message appended for one group of missing names (nothing when none is missing)
MissingError(label, missing) ==
    IF missing = {} THEN <<>>
    ELSE << <<"Missing ", label, " features: ">> \o Join(<<", ">>, SortedSeq(missing)) >>

\* how many vocabulary entries an error message lists before "..."
ValidLevelsShown == 10

\* the vocabulary check left out: validation is as lenient as the encoder
RankedErrors_Lenient(model, features, cols) == <<>>

RECURSIVE RankedErrors(_, _, _)
\* the vocabulary check over schema.ranked_features
RankedErrors(model, features, cols) ==
    IF cols = <<>> THEN <<>>
    ELSE LET col == Head(cols)
             valid_levels == MappingKeys(RankedEncoder(model, col).mapping)
             bad == /\ col \in DOMAIN features
                    /\ ~(features[col].t = "str" /\ features[col].v \in SeqToSet(valid_levels))
             shown == Take(valid_levels, ValidLevelsShown)
         IN (IF bad
             THEN << <<"Invalid value for ranked feature '", col, "': '">>
                     \o PyStr(features[col]) \o <<"'. Valid values: ">>
                     \o Join(<<", ">>, [k \in 1..Len(shown) |-> <<shown[k]>>])
                     \o (IF Len(valid_levels) > ValidLevelsShown THEN <<"...">> ELSE <<>>) >>
             ELSE <<>>)
            \o RankedErrors(model, features, Tail(cols))

RECURSIVE NumericalErrors(_, _)
\* the type check over schema.numerical_features
NumericalErrors(features, cols) ==
    IF cols = <<>> THEN <<>>
    ELSE LET col == Head(cols)
             bad == /\ col \in DOMAIN features
                    /\ ~IsNumber(features[col])
                    /\ FloatRaises(features[col])
         IN (IF bad
             THEN << <<"Invalid value for numerical feature '", col, "': '">>
                     \o PyStr(features[col]) \o <<"'. Expected numeric value.">> >>
             ELSE <<>>)
            \o NumericalErrors(features, Tail(cols))

\* the checks stop at the first problem found
validate_input_features_FirstError(model, features) ==
    LET schema == ModelSchema(model)
        provided_features == DOMAIN features
        errors ==
            MissingError("ranked", SeqToSet(schema.ranked_features) \ provided_features)
            \o MissingError("proximity", SeqToSet(schema.proximity_features) \ provided_features)
            \o MissingError("numerical", SeqToSet(schema.numerical_features) \ provided_features)
            \o RankedErrors(model, features, schema.ranked_features)
            \o NumericalErrors(features, schema.numerical_features)
    IN [is_valid |-> (Len(errors) = 0), errors |-> Take(errors, 1)]

\* validate_input_features(model, features)
validate_input_features(model, features) ==
    LET schema == ModelSchema(model)
        provided_features == DOMAIN features
        errors ==
            MissingError("ranked", SeqToSet(schema.ranked_features) \ provided_features)
            \o MissingError("proximity", SeqToSet(schema.proximity_features) \ provided_features)
            \o MissingError("numerical", SeqToSet(schema.numerical_features) \ provided_features)
            \o RankedErrors(model, features, schema.ranked_features)
            \o NumericalErrors(features, schema.numerical_features)
    IN [is_valid |-> (Len(errors) = 0), errors |-> errors]

\* ------------------------------------------------------------------------
\* InferenceService.predict
\* ------------------------------------------------------------------------
\* a Python exception object
Exc(cls, msg) == [type |-> cls, msg |-> msg]

\* PredictionResult(predictions, metadata)
PredictionResult(predictions, metadata) ==
    [type |-> "PredictionResult", predictions |-> predictions, metadata |-> metadata]

\* isinstance(x, Exception)
IsException(x) == x.type # "PredictionResult"

\* what a call does: return a value or raise an exception, with the
\* collaborators it called on the way
Return(v, trace) == [raised |-> FALSE, value |-> v, trace |-> trace]

Raise(e, trace) == [raised |-> TRUE, value |-> e, trace |-> trace]

\* GeoMapper.get_zone(location): an integer cost zone 1..4
get_zone(location) == IF location = "NY" THEN IntVal("1") ELSE IntVal("4")

\* the locations on which the geo-proximity lookup raises
GetZoneRaises(location) == location = "??"

\* the array the (target, quantile) regressor returns for the one-row frame
RegressorOutput(target, label) == IF label = "p10" THEN <<100>> ELSE <<150>>

\* SalaryForecaster.predict(input_df): target -> quantile label -> array
ForecasterPredict(model) ==
    [t \in SeqToSet(model.targets) |->
        [l \in SeqToSet(model.quantiles) |-> RegressorOutput(t, l)]]

\* what the forecaster does on a row: it predicts, or it raises
FaultKinds == {"none", "ValueError", "KeyError"}

\* the exception a failing forecaster call raises into predict's try block
ForecasterError(fault) == Exc(fault, <<"forecaster failed">>)

\* the metadata dict built after a successful forecast
PredictMetadata(model, features) ==
    LET base == [model_targets |-> model.targets, model_quantiles |-> model.quantiles]
        hasLoc == \E k \in 1..Len(model.proximity_encoders) :
                      /\ model.proximity_encoders[k].name = "Location"
                      /\ model.proximity_encoders[k].has_mapper
        location_val == IF "Location" \in DOMAIN features THEN features["Location"] ELSE NoneVal
    IN IF hasLoc /\ Truthy(location_val)
          /\ ~GetZoneRaises(location_val.v)
       THEN [model_targets |-> model.targets, model_quantiles |-> model.quantiles,
             location_zone |-> get_zone(location_val.v)]
       ELSE base

\* whether predict consults the geo-proximity mapper for this row
CallsGetZone(model, features) ==
    /\ \E k \in 1..Len(model.proximity_encoders) :
          /\ model.proximity_encoders[k].name = "Location"
          /\ model.proximity_encoders[k].has_mapper
    /\ "Location" \in DOMAIN features
    /\ Truthy(features["Location"])

\* does the metadata dict carry a resolved zone
HasZone(metadata) == "location_zone" \in DOMAIN metadata

\* the (location, zone) entries get_zone(location) writes to the mapper's
\* zone_cache: the zone it resolved for a location it had to look up
\* (nothing is known of the empty string, which is taken not to be cached)
CachedBy(location) ==
    IF GetZoneRaises(location) \/ location = "" THEN {}
    ELSE {<<location, get_zone(location).v>>}

\* the locations model.predict hands to get_zone: ProximityEncoder.transform
\* looks up every string of a proximity-encoded column
TransformLookups(model, features) ==
    {features[c].v : c \in {h \in SeqToSet(Keys(model.proximity_encoders)) :
                                h \in DOMAIN features /\ features[h].t = "str"}}

\* the mapper's zone_cache after predict(model, features)
ZoneCacheAfterPredict(cache, model, features, fault) ==
    IF ~validate_input_features(model, features).is_valid \/ fault # "none"
    THEN cache
    ELSE LET looked == TransformLookups(model, features)
                       \cup (IF CallsGetZone(model, features)
                             THEN {features["Location"].v} ELSE {})
         IN cache \cup UNION {CachedBy(l) : l \in looked}

\* the except clause missing: the forecaster's exception leaves predict as it is
WrapPredictionError_Reraise(e) == e

\* the except clause of predict: every Exception becomes InvalidInputError
WrapPredictionError(e) == Exc("InvalidInputError", <<"Prediction failed: ">> \o e.msg)

\* only the first collected error is reported
InvalidFeaturesMessage_FirstOnly(errors) == <<"Invalid input features: ">> \o errors[1]

\* the message of the InvalidInputError predict raises on failed validation
InvalidFeaturesMessage(errors) == <<"Invalid input features: ">> \o Join(<<"; ">>, errors)

\* predict(model, features); `fault` says what the forecaster does on this row
Predict(model, features, fault) ==
    LET validation_result == validate_input_features(model, features)
    IN IF ~validation_result.is_valid
       THEN Raise(Exc("InvalidInputError", InvalidFeaturesMessage(validation_result.errors)),
                  <<"validate_input_features">>)
       ELSE IF fault # "none"
       THEN Raise(WrapPredictionError(ForecasterError(fault)),
                  <<"validate_input_features", "DataFrame", "model.predict">>)
       ELSE LET raw_predictions == ForecasterPredict(model)
                formatted_predictions ==
                    [t \in DOMAIN raw_predictions |->
                        [l \in DOMAIN raw_predictions[t] |-> raw_predictions[t][l][1]]]
                metadata == PredictMetadata(model, features)
            IN Return(PredictionResult(formatted_predictions, metadata),
                      <<"validate_input_features", "DataFrame", "model.predict">>
                      \o (IF CallsGetZone(model, features) THEN <<"get_zone">> ELSE <<>>))

\* ------------------------------------------------------------------------
\* Inputs
\* ------------------------------------------------------------------------
FeatureNames == {"Level", "Location", "YearsOfExperience"}

\* the values a request supplies for each feature name
AllowedValues(name) ==
    CASE name = "Level" -> {StrVal("E3"), StrVal("E4"), StrVal("XX"), NoneVal}
      [] name = "Location" -> {StrVal(""), StrVal("NY"), StrVal("??"), NoneVal}
      [] OTHER -> {IntVal("5"), StrVal("7"), StrVal("abc"), NoneVal}

AllValues == UNION {AllowedValues(name) : name \in FeatureNames}

\* every feature dict over the known names
FeatureDicts ==
    UNION { {f \in [S -> AllValues] : \A name \in S : f[name] \in AllowedValues(name)}
            : S \in SUBSET FeatureNames }

\* the feature dicts offered to the forecaster whose proximity column is City
CityDicts ==
    UNION { {f \in [S -> AllValues] :
                /\ "Level" \in S => f["Level"] \in {StrVal("E3"), StrVal("XX")}
                /\ "City" \in S => f["City"] \in {StrVal("NY"), StrVal(""), NoneVal}
                /\ "YearsOfExperience" \in S => f["YearsOfExperience"] \in {IntVal("5"), StrVal("abc")}}
            : S \in SUBSET {"City", "Level", "YearsOfExperience"} }

\* a model and a feature dict for it
PredictInputs ==
    {<<Forecaster, f>> : f \in FeatureDicts} \cup {<<ForecasterCity, f>> : f \in CityDicts}

\* ------------------------------------------------------------------------
\* State
\* ------------------------------------------------------------------------
VARIABLES
    \* the batch request and its environment
    features_list,      \* batch_request.features: the feature dicts, with for each
                        \* the forecaster's behaviour on it (fault)
    req_concurrency,    \* batch_request.concurrency, 0 when the request gives none
    timeout_cfg,        \* the deployed value of BATCH_INFERENCE_TIMEOUT (0 disables)
    loadable,           \* whether the registry can load the run's model
    \* predict_batch (router) and predict_batch_parallel (service), calling thread
    pc,                 \* position of the calling thread
    concurrency,        \* the clamped concurrency handed to the service
    results,            \* results[i]: None or the (index, result) pair
    yielding,           \* futures as_completed has taken from its waiter, not yet yielded
    ac_pending,         \* as_completed's `pending` set
    hpos,               \* next index the timeout handler examines
    final_results,      \* the list predict_batch_parallel returns
    response,           \* the BatchPredictionResponse (empty until built)
    raised,             \* the exception that left predict_batch (NoException if none)
    \* the executor
    fstate,             \* state of item i's future
    fresult,            \* the value item i's future holds once finished
    expired,            \* the as_completed deadline has passed
    \* history
    out_of_order,       \* some item finished while a lower index was unfinished
    late,               \* the items unfinished when the deadline passed
    \* a single InferenceService.predict call
    p_pc,               \* "call" before the call, "done" after it
    p_model,            \* the model argument
    p_features,         \* the features argument
    p_fault,            \* what the forecaster does on this row
    p_out,              \* what the call did: the value returned or the exception raised
    \* the loaded forecaster
    zone_cache,         \* zone_cache of the GeoMapper inside its proximity encoder
    \* SalaryForecaster.train and the predict that follows it
    t_pc,               \* position inside train
    t_targets,          \* self.targets
    t_quantiles,        \* self.quantiles, each in hundredths
    t_callback,         \* whether train was given a callback
    t_ti,               \* position of the outer loop (for target in self.targets)
    t_qi,               \* position of the inner loop (for q in self.quantiles)
    models,             \* self.models: model_name -> booster
    events,             \* the data dicts the callback has received, in order
    t_cv,               \* cv_results of the pair being trained
    t_best,             \* (best_round, best_score) of the pair being trained
    t_raised,           \* the exception that left train (NoException if none)
    t_preds,            \* what SalaryForecaster.predict returned after training
    \* a validate_input_features call
    v_pc,
    v_model,            \* the model argument
    v_features,         \* the features argument
    v_result,           \* the ValidationResult returned
    \* a RankedCategoryEncoder and the transform calls on it
    e_mapping,          \* encoder.mapping
    e_input,            \* the X every call is given
    e_out,              \* what each call so far returned, in order
    \* a location encoder and a transform call on it
    l_pc,               \* "call" before the call, "done" after it
    l_encoder,          \* the encoder's class
    l_mapper,           \* what the encoder's self.mapper answers: location -> zone
    l_input,            \* the X the call is given
    l_out,              \* what the call did, with the get_zone calls it made
    \* a SampleWeighter and a transform call on it
    w_pc,               \* "call" before the call, "done" after it
    w_variant,          \* which of the two SampleWeighter classes it is
    w_k,                \* self.k
    w_ref_date,         \* self.ref_date, in days since the epoch
    w_input,            \* the X the call is given
    w_out,              \* what the call did: the weights returned or the exception
    \* a DateNormalizer and the calls made on it
    n_pc,               \* "ready" while the normalizer is in use
    n_mode,             \* self.mode
    n_min_date,         \* self.min_date: None or an instant
    n_max_date,         \* self.max_date: None or an instant
    n_fitted,           \* fit has been called on it
    n_calls,            \* how many calls were made on it
    n_last,             \* the last call: its operation, argument and outcome
    \* a cross-validation table and the two functions that analyze it
    c_pc,               \* "call" while a table is analyzed
    c_cv_results,       \* the table: column name -> one score per round
    c_metric_name,      \* the metric_name argument
    c_called,           \* which of the two functions have been called
    c_out,              \* what each function did: the pair returned or the exception
    \* an InferenceService and the load_model calls made on it
    s_pc,               \* "ready" while the service is in use
    _model_cache,       \* self._model_cache: run_id -> model object
    registry_calls,     \* the run ids self.registry.load_model was called with, in order
    s_objects,          \* how many model objects the registry has returned
    s_loaded,           \* run_id -> the object its first successful load returned
    s_calls,            \* how many load_model calls were made
    s_last              \* the last load_model call: its run_id and outcome

\* the variables of a training run
train_vars == <<t_pc, t_targets, t_quantiles, t_callback, t_ti, t_qi, models, events,
                t_cv, t_best, t_raised, t_preds>>

\* the variables of a validation call
validate_vars == <<v_pc, v_model, v_features, v_result>>

\* the variables of an encoder
encoder_vars == <<e_mapping, e_input, e_out>>

\* the variables of a location encoder
location_vars == <<l_pc, l_encoder, l_mapper, l_input, l_out>>

\* the variables of a sample weighter
weighter_vars == <<w_pc, w_variant, w_k, w_ref_date, w_input, w_out>>

\* the variables of a date normalizer
normalizer_vars == <<n_pc, n_mode, n_min_date, n_max_date, n_fitted, n_calls, n_last>>

\* the variables of an analysis of a cross-validation table
analysis_vars == <<c_pc, c_cv_results, c_metric_name, c_called, c_out>>

\* the variables of a service's model cache
load_vars == <<s_pc, _model_cache, registry_calls, s_objects, s_loaded, s_calls, s_last>>

\* the variables of the components followed on their own
component_vars == <<location_vars, weighter_vars, normalizer_vars, analysis_vars,
                    load_vars>>

\* what the actions of a batch request and of a predict call never touch
offline_vars == <<train_vars, validate_vars, encoder_vars, component_vars>>

\* the variables of a single predict call
predict_vars == <<p_pc, p_model, p_features, p_fault, p_out>>

vars == <<features_list, req_concurrency, timeout_cfg, loadable, pc, concurrency,
          results, yielding, ac_pending, hpos, final_results, response, raised,
          fstate, fresult, expired, out_of_order, late, predict_vars, zone_cache,
          offline_vars>>

\* the variables of a batch request
batch_vars == <<features_list, req_concurrency, timeout_cfg, loadable, pc, concurrency,
                results, yielding, ac_pending, hpos, final_results, response, raised,
                fstate, fresult, expired, out_of_order, late>>

\* len(features_list) and range(len(features_list))
N == Len(features_list)

Indices == 0..(N - 1)

\* features_list[i]
Item(i) == features_list[i + 1]

\* ------------------------------------------------------------------------
\* Batch inputs
\* ------------------------------------------------------------------------
\* a row that predicts, whose empty Location resolves no zone
RowPlain == [Level |-> StrVal("E3"), Location |-> StrVal(""), YearsOfExperience |-> IntVal("5")]

\* a row that predicts and resolves a proximity zone
RowZoned == [Level |-> StrVal("E4"), Location |-> StrVal("NY"), YearsOfExperience |-> IntVal("5")]

\* a row missing a required feature
RowMissing == [Level |-> StrVal("E3"), Location |-> StrVal("NY")]

\* the items a batch is drawn from: a row and what the forecaster does on it
BatchItems ==
    {[features |-> RowPlain, fault |-> "none"],
     [features |-> RowZoned, fault |-> "none"],
     [features |-> RowMissing, fault |-> "none"],
     [features |-> RowPlain, fault |-> "ValueError"]}

\* every list of 1..MaxN items (the DTO's min_length is 1)
BatchLists == UNION {[1..n -> BatchItems] : n \in 1..MaxN}

\* ------------------------------------------------------------------------
\* predict_batch_parallel: the worker side
\* ------------------------------------------------------------------------
\* the closure reads the loop variable late: every worker predicts the last item
predict_single_LateBinding(index, item) ==
    LET last == Item(N - 1)
        out == Predict(Forecaster, last.features, last.fault)
    IN <<index, out.value>>

\* predict_single(index, features): the worker boundary
predict_single(index, item) ==
    LET out == Predict(Forecaster, item.features, item.fault)
    IN <<index, out.value>>

\* the error the timeout handler stores for an unfinished item
TimeoutError(index) ==
    Exc("InvalidInputError", <<"Prediction timeout for item ", ToString(index)>>)

\* the error the final loop stores for a slot that is still None
NotCompletedError(index) ==
    Exc("InvalidInputError", <<"Prediction not completed for item ", ToString(index)>>)

\* future.done()
Done(i) == fstate[i] \in {"finished", "cancelled"}

\* the number of predictions executing
Running == Cardinality({i \in Indices : fstate[i] = "running"})

\* the executor exists from the submit until the with block has been left
ExecutorAlive == pc \in {"as_completed", "ac_yield", "ac_wait", "handler", "shutdown"}

\* a worker thread may take the next work item
CanStart(i) ==
    /\ fstate[i] = "pending"
    /\ \A j \in Indices : j < i => fstate[j] # "pending"
    /\ Running < concurrency

\* a worker thread takes the oldest queued work item and starts predict_single
WorkerStart(i) ==
    /\ ExecutorAlive
    /\ CanStart(i)
    /\ fstate' = [fstate EXCEPT ![i] = "running"]
    /\ UNCHANGED <<predict_vars, offline_vars, zone_cache, features_list, req_concurrency, timeout_cfg, loadable, pc, concurrency,
                   results, yielding, ac_pending, hpos, final_results, response, raised,
                   fresult, expired, out_of_order, late>>

\* predict_single returns: the future gets its result and its waiters are told
WorkerFinish(i) ==
    /\ ExecutorAlive
    /\ fstate[i] = "running"
    /\ fstate' = [fstate EXCEPT ![i] = "finished"]
    /\ fresult' = [fresult EXCEPT ![i] = predict_single(i, Item(i))]
    /\ out_of_order' = (out_of_order \/ \E j \in Indices : j < i /\ ~Done(j))
    /\ zone_cache' = ZoneCacheAfterPredict(zone_cache, Forecaster, Item(i).features, Item(i).fault)
    /\ UNCHANGED <<predict_vars, offline_vars, features_list, req_concurrency, timeout_cfg, loadable, pc, concurrency,
                   results, yielding, ac_pending, hpos, final_results, response, raised,
                   expired, late>>

\* ------------------------------------------------------------------------
\* predict_batch: entry
\* ------------------------------------------------------------------------
\* min(a, b)
Min(a, b) == IF a < b THEN a ELSE b

\* the clamp to the system-wide ceiling left out
ClampConcurrency_NoCeiling(requested) ==
    IF requested = 0 THEN BATCH_INFERENCE_CONCURRENCY ELSE requested

\* batch_request.concurrency or BATCH_INFERENCE_CONCURRENCY, then the clamp
ClampConcurrency(requested) ==
    Min(IF requested = 0 THEN BATCH_INFERENCE_CONCURRENCY ELSE requested,
        BATCH_INFERENCE_CONCURRENCY)

\* the size check, load_model and the clamp, up to the call of the service
RouterEnter ==
    /\ pc = "request"
    /\ IF N > BATCH_INFERENCE_MAX_SIZE
       THEN /\ raised' = Exc("APIInvalidInputError",
                             <<"Batch size ", ToString(N), " exceeds maximum of ",
                               ToString(BATCH_INFERENCE_MAX_SIZE)>>)
            /\ pc' = "raised"
            /\ UNCHANGED concurrency
       ELSE IF ~loadable
       THEN /\ raised' = Exc("APIModelNotFoundError", <<"run_id">>)
            /\ pc' = "raised"
            /\ UNCHANGED concurrency
       ELSE /\ concurrency' = ClampConcurrency(req_concurrency)
            /\ pc' = "call"
            /\ UNCHANGED raised
    /\ UNCHANGED <<predict_vars, offline_vars, zone_cache, features_list, req_concurrency, timeout_cfg, loadable,
                   results, yielding, ac_pending, hpos, final_results, response,
                   fstate, fresult, expired, out_of_order, late>>

\* ------------------------------------------------------------------------
\* predict_batch_parallel: the calling thread
\* ------------------------------------------------------------------------
\* `if timeout:`
Timed == timeout_cfg # 0

\* results = [None] * n, the executor is created and every item is submitted.
\* Submission does not block, and a worker that starts while later items are
\* still being submitted reaches the same states as one that starts after.
ServiceSubmit ==
    /\ pc = "call"
    /\ results' = [i \in Indices |-> None]
    /\ fstate' = [i \in Indices |-> "pending"]
    /\ pc' = "as_completed"
    /\ UNCHANGED <<predict_vars, offline_vars, zone_cache, features_list, req_concurrency, timeout_cfg, loadable, concurrency,
                   yielding, ac_pending, hpos, final_results, response, raised,
                   fresult, expired, out_of_order, late>>

\* as_completed(future_to_index[, timeout]) starts: the futures already
\* finished are yielded first, the others are pending; the deadline is set
ACStart ==
    /\ pc = "as_completed"
    /\ yielding' = {i \in Indices : Done(i)}
    /\ ac_pending' = {i \in Indices : ~Done(i)}
    /\ pc' = "ac_yield"
    /\ UNCHANGED <<predict_vars, offline_vars, zone_cache, features_list, req_concurrency, timeout_cfg, loadable, concurrency,
                   results, hpos, final_results, response, raised,
                   fstate, fresult, expired, out_of_order, late>>

\* the deadline of a timed as_completed passes
DeadlinePasses ==
    /\ Timed
    /\ pc \in {"ac_yield", "ac_wait"}
    /\ ~expired
    /\ expired' = TRUE
    /\ late' = {i \in Indices : ~Done(i)}
    /\ UNCHANGED <<predict_vars, offline_vars, zone_cache, features_list, req_concurrency, timeout_cfg, loadable, pc, concurrency,
                   results, yielding, ac_pending, hpos, final_results, response, raised,
                   fstate, fresult, out_of_order>>

\* the loop body: results[index] = future.result() for a yielded future
\* (predict_single catches every Exception, so result() does not raise)
Collect(i) ==
    /\ pc = "ac_yield"
    /\ i \in yielding
    /\ results' = [results EXCEPT ![i] = fresult[i]]
    /\ yielding' = yielding \ {i}
    /\ UNCHANGED <<predict_vars, offline_vars, zone_cache, features_list, req_concurrency, timeout_cfg, loadable, pc, concurrency,
                   ac_pending, hpos, final_results, response, raised,
                   fstate, fresult, expired, out_of_order, late>>

\* as_completed's `while pending:` test and deadline check: the generator
\* ends, raises TimeoutError, or goes to wait on the waiter's event
ACCheck ==
    /\ pc = "ac_yield"
    /\ yielding = {}
    /\ IF ac_pending = {}
       THEN pc' = "shutdown"
       ELSE IF Timed /\ expired
       THEN pc' = "handler"
       ELSE pc' = "ac_wait"
    /\ hpos' = 0
    /\ UNCHANGED <<predict_vars, offline_vars, zone_cache, features_list, req_concurrency, timeout_cfg, loadable, concurrency,
                   results, yielding, ac_pending, final_results, response, raised,
                   fstate, fresult, expired, out_of_order, late>>

\* waiter.event.wait(wait_timeout) returns, because a pending future finished
\* or because the deadline passed; the finished futures are taken
ACWake ==
    /\ pc = "ac_wait"
    /\ LET finished_futures == {i \in ac_pending : Done(i)}
       IN /\ (finished_futures # {} \/ (Timed /\ expired))
          /\ yielding' = finished_futures
          /\ ac_pending' = ac_pending \ finished_futures
    /\ pc' = "ac_yield"
    /\ UNCHANGED <<predict_vars, offline_vars, zone_cache, features_list, req_concurrency, timeout_cfg, loadable, concurrency,
                   results, hpos, final_results, response, raised,
                   fstate, fresult, expired, out_of_order, late>>

\* except FutureTimeoutError: one iteration over future_to_index.items()
HandlerStep ==
    /\ pc = "handler"
    /\ hpos < N
    /\ IF ~Done(hpos)
       THEN /\ results' = [results EXCEPT ![hpos] = <<hpos, TimeoutError(hpos)>>]
            \* future.cancel() only cancels a future that has not started
            /\ fstate' = [fstate EXCEPT ![hpos] =
                             IF fstate[hpos] = "pending" THEN "cancelled" ELSE @]
       ELSE UNCHANGED <<results, fstate>>
    /\ hpos' = hpos + 1
    /\ UNCHANGED <<predict_vars, offline_vars, zone_cache, features_list, req_concurrency, timeout_cfg, loadable, pc, concurrency,
                   yielding, ac_pending, final_results, response, raised,
                   fresult, expired, out_of_order, late>>

\* the handler's loop is over: the with block is left
HandlerEnd ==
    /\ pc = "handler"
    /\ hpos = N
    /\ pc' = "shutdown"
    /\ UNCHANGED <<predict_vars, offline_vars, zone_cache, features_list, req_concurrency, timeout_cfg, loadable, concurrency,
                   results, yielding, ac_pending, hpos, final_results, response, raised,
                   fstate, fresult, expired, out_of_order, late>>

\* the entry of final_results for slot i
FinalEntry(i) ==
    IF results[i] = None THEN <<i, NotCompletedError(i)>> ELSE results[i]

\* slots that are still None are dropped instead of reported
FinalResults_DropNone ==
    LET filled(r) == r # None
    IN SelectSeq([k \in 1..N |-> results[k - 1]], filled)

\* the final loop over enumerate(results)
FinalResults == [k \in 1..N |-> FinalEntry(k - 1)]

\* ThreadPoolExecutor.__exit__ is shutdown(wait=True): the calling thread
\* joins the workers, which first finish what runs and drain the queue;
\* then final_results is built and returned
ShutdownAndReturn ==
    /\ pc = "shutdown"
    /\ \A i \in Indices : fstate[i] \notin {"pending", "running"}
    /\ final_results' = FinalResults
    /\ pc' = "returned"
    /\ UNCHANGED <<predict_vars, offline_vars, zone_cache, features_list, req_concurrency, timeout_cfg, loadable, concurrency,
                   results, yielding, ac_pending, hpos, response, raised,
                   fstate, fresult, expired, out_of_order, late>>

\* ------------------------------------------------------------------------
\* predict_batch: the response
\* ------------------------------------------------------------------------
\* pydantic rejects a location_zone that is neither None nor a str
\* (PredictionMetadata.location_zone: Optional[str])
MetadataRejects(result) ==
    HasZone(result.metadata) /\ result.metadata["location_zone"].t # "str"

\* PredictionResponse(predictions=..., metadata=PredictionMetadata(...))
PredictionResponse(result) ==
    [predictions |-> result.predictions,
     metadata |-> [model_run_id |-> "run_id",
                   location_zone |-> IF HasZone(result.metadata)
                                     THEN Some(result.metadata["location_zone"])
                                     ELSE None]]

\* the status code given to a failed item
StatusCode(e) == IF e.type = "InvalidInputError" THEN 400 ELSE 500

\* the BatchPredictionItem appended for one (index, result) pair
BatchItem(pair) ==
    IF IsException(pair[2])
    THEN [prediction |-> None, status_code |-> StatusCode(pair[2]),
          error |-> pair[2].msg, index |-> pair[1]]
    ELSE [prediction |-> Some(PredictionResponse(pair[2])), status_code |-> 200,
          error |-> None, index |-> pair[1]]

\* the empty response and the absence of an exception
NoResponse ==
    [predictions |-> <<>>, items |-> <<>>, total |-> 0, success_count |-> 0, failure_count |-> 0]

NoException == Exc("None", <<>>)

\* success_count incremented for every item instead of every success
BuildResponse_CountAll(batch_results) ==
    LET ok(pair) == ~IsException(pair[2])
        failed(pair) == IsException(pair[2])
        successes == SelectSeq(batch_results, ok)
    IN [predictions   |-> [k \in 1..Len(successes) |-> PredictionResponse(successes[k][2])],
        items         |-> [k \in 1..Len(batch_results) |-> BatchItem(batch_results[k])],
        total         |-> N,
        success_count |-> Len(batch_results),
        failure_count |-> Len(SelectSeq(batch_results, failed))]

\* the loop over batch_results and the BatchPredictionResponse
BuildResponse(batch_results) ==
    LET ok(pair) == ~IsException(pair[2])
        failed(pair) == IsException(pair[2])
        successes == SelectSeq(batch_results, ok)
    IN [predictions   |-> [k \in 1..Len(successes) |-> PredictionResponse(successes[k][2])],
        items         |-> [k \in 1..Len(batch_results) |-> BatchItem(batch_results[k])],
        total         |-> N,
        success_count |-> Len(successes),
        failure_count |-> Len(SelectSeq(batch_results, failed))]

\* predict_batch after the service call: the response is built, unless the
\* construction of a PredictionMetadata raises (a ValidationError that no
\* except clause of the endpoint catches)
RouterRespond ==
    /\ pc = "returned"
    /\ IF \E k \in 1..Len(final_results) :
              ~IsException(final_results[k][2]) /\ MetadataRejects(final_results[k][2])
       THEN /\ raised' = Exc("ValidationError", <<"location_zone: Input should be a valid string">>)
            /\ pc' = "raised"
            /\ UNCHANGED response
       ELSE /\ response' = BuildResponse(final_results)
            /\ pc' = "done"
            /\ UNCHANGED raised
    /\ UNCHANGED <<predict_vars, offline_vars, zone_cache, features_list, req_concurrency, timeout_cfg, loadable, concurrency,
                   results, yielding, ac_pending, hpos, final_results,
                   fstate, fresult, expired, out_of_order, late>>

\* ------------------------------------------------------------------------
\* SalaryForecaster.train
\* ------------------------------------------------------------------------
\* the longest list of quantiles a configuration holds
MaxQuantiles == 2

\* the quantiles a configuration is drawn from, in hundredths (0.28, 0.29, 0.5)
Quantiles == {28, 29, 50}

\* the hundredths c for which the float c/100 times 100 falls just below c
\* (0.29 * 100 is 28.999999999999996); for the others the product is c or
\* just above c
FloatBelow == {29, 57, 58}

\* q * 100 in float arithmetic: the whole part and whether the fraction is
\* within rounding error of the next integer
FloatTimes100(q) ==
    [whole |-> IF q \in FloatBelow THEN q - 1 ELSE q, near_next |-> q \in FloatBelow]

\* int(x) truncates
PyInt(x) == x.whole

\* f"p{int(q*100)}"
QuantileLabel(q) == <<"p", ToString(PyInt(FloatTimes100(q)))>>

\* f"{target}_p{int(q*100)}"
ModelName(target, q) == <<target, "_">> \o QuantileLabel(q)

\* metric_name = 'test-quantile-mean'
MetricName == "test-quantile-mean"

\* the tables xgb.cv returns: column name -> one score per boosting round
CvResults ==
    {[c \in {"test-quantile-mean"} |-> <<5, 4, 6>>],
     [c \in {"test-quantile-mean"} |-> <<3>>],
     [c \in {"test-rmse-mean"} |-> <<3>>]}

\* Series.min()
SeriesMin(col) == CHOOSE m \in SeqToSet(col) : \A x \in SeqToSet(col) : m <= x

\* the last 0-based position of the minimum instead of the first
ArgMin_Last(col) == (CHOOSE k \in 1..Len(col) :
                        /\ col[k] = SeriesMin(col)
                        /\ \A j \in (k + 1)..Len(col) : col[j] # SeriesMin(col)) - 1

\* Series.argmin(): the first 0-based position of the minimum
ArgMin(col) == (CHOOSE k \in 1..Len(col) :
                   /\ col[k] = SeriesMin(col)
                   /\ \A j \in 1..(k - 1) : col[j] # SeriesMin(col)) - 1

\* SalaryForecaster._analyze_cv_results(cv_results, metric_name)
_analyze_cv_results(cv_results, metric_name) ==
    IF metric_name \notin DOMAIN cv_results
    THEN Raise(Exc("ValueError", <<"Metric ", metric_name, " not found in CV results columns">>),
               <<>>)
    ELSE IF Len(cv_results[metric_name]) = 0
         THEN Raise(Exc("ValueError", <<"attempt to get argmin of an empty sequence">>), <<>>)
         ELSE Return(<<ArgMin(cv_results[metric_name]) + 1, SeriesMin(cv_results[metric_name])>>,
                     <<>>)

\* what a fitted booster predicts for the row it is later asked about
BoosterOutputs == {100, 150}

\* the refit run for the round ceiling of the cross-validation instead of the
\* selected round count
Booster_CvCeiling(target, q, best_round, out) ==
    [target |-> target, quantile_alpha |-> q, num_boost_round |-> 100, out |-> out]

\* xgb.train(params, dtrain, num_boost_round=best_round) for the target's
\* labels and quantile_alpha q
Booster(target, q, best_round, out) ==
    [target |-> target, quantile_alpha |-> q, num_boost_round |-> best_round, out |-> out]

\* d[k] = v
DictSet(d, k, v) == [x \in (DOMAIN d) \cup {k} |-> IF x = k THEN v ELSE d[x]]

\* the data dict of each callback call
StartEvent(model_name) == [stage |-> "start", model_name |-> model_name]

CvStartEvent == [stage |-> "cv_start"]

CvEndEvent(model_name, best_round, best_score, metric_name) ==
    [stage |-> "cv_end", model_name |-> model_name, best_round |-> best_round,
     best_score |-> best_score, metric_name |-> metric_name]

\* the loops are nested the other way round: quantiles outer, targets inner
Advance_TargetsInner(ti, qi, nT, nQ) ==
    IF ti < nT THEN <<ti + 1, qi>> ELSE <<1, qi + 1>>

\* the next position of `for target in self.targets: for q in self.quantiles:`
Advance(ti, qi, nT, nQ) ==
    IF qi < nQ THEN <<ti, qi + 1>> ELSE <<ti + 1, 1>>

\* the pair being trained
CurTarget == t_targets[t_ti]

CurQuantile == t_quantiles[t_qi]

\* train(df, callback): the frame is preprocessed, the weights, the
\* constraints and the hyperparameters are prepared, the loops start
TrainEnter ==
    /\ t_pc = "call"
    /\ t_ti' = 1
    /\ t_qi' = 1
    /\ t_pc' = "start"
    /\ UNCHANGED <<batch_vars, predict_vars, zone_cache, component_vars, validate_vars, encoder_vars,
                   t_targets, t_quantiles, t_callback, models, events,
                   t_cv, t_best, t_raised, t_preds>>

\* the name of the pair's model is built and the start event is sent
EmitStart ==
    /\ t_pc = "start"
    /\ events' = IF t_callback
                 THEN Append(events, StartEvent(ModelName(CurTarget, CurQuantile)))
                 ELSE events
    /\ t_pc' = "cv_start"
    /\ UNCHANGED <<batch_vars, predict_vars, zone_cache, component_vars, validate_vars, encoder_vars,
                   t_targets, t_quantiles, t_callback, t_ti, t_qi, models,
                   t_cv, t_best, t_raised, t_preds>>

\* params and dtrain are built and the cv_start event is sent
EmitCvStart ==
    /\ t_pc = "cv_start"
    /\ events' = IF t_callback THEN Append(events, CvStartEvent) ELSE events
    /\ t_pc' = "cv"
    /\ UNCHANGED <<batch_vars, predict_vars, zone_cache, component_vars, validate_vars, encoder_vars,
                   t_targets, t_quantiles, t_callback, t_ti, t_qi, models,
                   t_cv, t_best, t_raised, t_preds>>

\* xgb.cv returns a table and _analyze_cv_results reads the metric column;
\* its ValueError leaves train
CrossValidate ==
    /\ t_pc = "cv"
    /\ \E cv_results \in CvResults :
          LET r == _analyze_cv_results(cv_results, MetricName)
          IN /\ t_cv' = cv_results
             /\ IF r.raised
                THEN /\ t_raised' = r.value
                     /\ t_pc' = "raised"
                     /\ UNCHANGED t_best
                ELSE /\ t_best' = r.value
                     /\ t_pc' = "cv_end"
                     /\ UNCHANGED t_raised
    /\ UNCHANGED <<batch_vars, predict_vars, zone_cache, component_vars, validate_vars, encoder_vars,
                   t_targets, t_quantiles, t_callback, t_ti, t_qi, models, events, t_preds>>

\* the cv_end event is sent
EmitCvEnd ==
    /\ t_pc = "cv_end"
    /\ events' = IF t_callback
                 THEN Append(events, CvEndEvent(ModelName(CurTarget, CurQuantile),
                                                t_best[1], t_best[2], MetricName))
                 ELSE events
    /\ t_pc' = "fit"
    /\ UNCHANGED <<batch_vars, predict_vars, zone_cache, component_vars, validate_vars, encoder_vars,
                   t_targets, t_quantiles, t_callback, t_ti, t_qi, models,
                   t_cv, t_best, t_raised, t_preds>>

\* xgb.train refits on the full data, the booster is stored under the pair's
\* name, and the loops go on to the next pair or end
FitAndStore ==
    /\ t_pc = "fit"
    /\ \E out \in BoosterOutputs :
          models' = DictSet(models, ModelName(CurTarget, CurQuantile),
                            Booster(CurTarget, CurQuantile, t_best[1], out))
    /\ LET next == Advance(t_ti, t_qi, Len(t_targets), Len(t_quantiles))
       IN /\ t_ti' = next[1]
          /\ t_qi' = next[2]
          /\ t_pc' = IF next[1] > Len(t_targets) \/ next[2] > Len(t_quantiles)
                     THEN "done" ELSE "start"
    /\ UNCHANGED <<batch_vars, predict_vars, zone_cache, component_vars, validate_vars, encoder_vars,
                   t_targets, t_quantiles, t_callback, events,
                   t_cv, t_best, t_raised, t_preds>>

\* SalaryForecaster.predict(X_input) over a bank: for every target, the
\* label of every quantile whose model is in the bank -> the booster's array
SalaryForecasterPredict(bank, targets, quantiles) ==
    [t \in SeqToSet(targets) |->
        LET present == {q \in SeqToSet(quantiles) : ModelName(t, q) \in DOMAIN bank}
        IN [l \in {QuantileLabel(q) : q \in present} |->
               LET q == CHOOSE x \in present : QuantileLabel(x) = l
               IN <<bank[ModelName(t, q)].out>>]]

\* the trained forecaster is asked to predict a row
TrainedPredict ==
    /\ t_pc = "done"
    /\ t_preds' = SalaryForecasterPredict(models, t_targets, t_quantiles)
    /\ t_pc' = "predicted"
    /\ UNCHANGED <<batch_vars, predict_vars, zone_cache, component_vars, validate_vars, encoder_vars,
                   t_targets, t_quantiles, t_callback, t_ti, t_qi, models, events,
                   t_cv, t_best, t_raised>>

\* no training run is in progress
TrainIdle ==
    /\ t_pc = "idle"
    /\ t_targets = <<>>
    /\ t_quantiles = <<>>
    /\ t_callback = FALSE
    /\ t_ti = 0
    /\ t_qi = 0
    /\ models = <<>>
    /\ events = <<>>
    /\ t_cv = <<>>
    /\ t_best = <<0, 0>>
    /\ t_raised = NoException
    /\ t_preds = <<>>

\* ------------------------------------------------------------------------
\* A validate_input_features call
\* ------------------------------------------------------------------------
\* the role a feature name has in a model
Roles == {"ranked", "proximity", "numerical", "absent"}

\* the names the validated models are built over
ValidateNames == <<"Level", "Location", "YearsOfExperience">>

\* a forecaster in which every name has the given role: ranked and proximity
\* names get an encoder and appear encoded in feature_names, numerical names
\* appear as they are
ForecasterOf(role) ==
    LET named(r) == SelectSeq(ValidateNames, LAMBDA h : role[h] = r)
        used == SelectSeq(ValidateNames, LAMBDA h : role[h] # "absent")
    IN [ranked_encoders    |-> [k \in 1..Len(named("ranked")) |->
                                   [name |-> named("ranked")[k],
                                    mapping |-> << <<"E3", 0>>, <<"E4", 1>> >>]],
        proximity_encoders |-> [k \in 1..Len(named("proximity")) |->
                                   [name |-> named("proximity")[k], has_mapper |-> TRUE]],
        feature_names      |-> [k \in 1..Len(used) |->
                                   IF role[used[k]] = "numerical" THEN used[k]
                                   ELSE EncName(used[k])],
        targets            |-> <<"BaseSalary">>,
        quantiles          |-> <<"p10", "p50">>]

\* the models a validation call is given
ValidateModels == {ForecasterOf(role) : role \in [SeqToSet(ValidateNames) -> Roles]}

\* the values a validation call sees for any name
ValidateValues == {StrVal("E3"), StrVal("XX"), IntVal("5"), StrVal("7"), NoneVal}

\* the feature dicts a validation call is given
ValidateDicts ==
    UNION {[S -> ValidateValues] : S \in SUBSET SeqToSet(ValidateNames)}

\* the ValidationResult before the call
NoValidation == [is_valid |-> FALSE, errors |-> <<>>]

\* inference_service.validate_input_features(model, features) is called
ValidateCall ==
    /\ v_pc = "call"
    /\ v_result' = validate_input_features(v_model, v_features)
    /\ v_pc' = "done"
    /\ UNCHANGED <<batch_vars, predict_vars, zone_cache, component_vars, train_vars, encoder_vars,
                   v_model, v_features>>

\* no validation call is in progress
ValidateIdle ==
    /\ v_pc = "idle"
    /\ v_model = Forecaster
    /\ v_features = RowPlain
    /\ v_result = NoValidation

\* ------------------------------------------------------------------------
\* Calls of RankedCategoryEncoder.transform
\* ------------------------------------------------------------------------
\* the longest column and the number of calls followed
MaxColumn == 2

MaxCalls == 2

\* the mappings an encoder is built with
Mappings == {<<>>, << <<"E3", 0>> >>, << <<"E3", 0>>, <<"E4", 1>>, <<"E5", 2>> >>}

\* the values a column holds
CategoryValues ==
    {StrVal("E3"), StrVal("E5"), StrVal("Unknown"), StrVal(""), NoneVal, NaNVal}

Columns == UNION {[1..n -> CategoryValues] : n \in 0..MaxColumn}

\* a Series, or a DataFrame whose first column is followed by another
TransformInputs ==
    {Series(col) : col \in Columns}
    \cup {DataFrame(<<col, <<StrVal("E3")>> >>) : col \in Columns}

\* encoder.transform(X) is called; the encoder keeps its mapping
TransformCall ==
    /\ Len(e_out) < MaxCalls
    /\ e_input # <<>>
    /\ e_out' = Append(e_out, transform(e_mapping, e_input[1]))
    /\ UNCHANGED <<batch_vars, predict_vars, zone_cache, component_vars, train_vars, validate_vars,
                   e_mapping, e_input>>

\* no encoder is followed
EncoderIdle ==
    /\ e_mapping = <<>>
    /\ e_input = <<>>
    /\ e_out = <<>>

\* ------------------------------------------------------------------------
\* A single predict call
\* ------------------------------------------------------------------------
\* p_out before the call
NoOutcome == Return(NoException, <<>>)

\* inference_service.predict(model, features) is called and returns or raises
PredictCall ==
    /\ p_pc = "call"
    /\ p_out' = Predict(p_model, p_features, p_fault)
    /\ zone_cache' = ZoneCacheAfterPredict(zone_cache, p_model, p_features, p_fault)
    /\ p_pc' = "done"
    /\ UNCHANGED <<batch_vars, offline_vars, p_model, p_features, p_fault>>

\* no single predict call is in progress
PredictIdle ==
    /\ p_pc = "idle"
    /\ p_model = Forecaster
    /\ p_features = RowPlain
    /\ p_fault = "none"
    /\ p_out = NoOutcome

\* no batch request is in progress
BatchIdle ==
    /\ features_list = <<>>
    /\ req_concurrency = 0
    /\ timeout_cfg = 0
    /\ loadable = TRUE
    /\ pc = "idle"
    /\ concurrency = 0
    /\ results = <<>>
    /\ yielding = {}
    /\ ac_pending = {}
    /\ hpos = 0
    /\ final_results = <<>>
    /\ response = NoResponse
    /\ raised = NoException
    /\ fstate = <<>>
    /\ fresult = <<>>
    /\ expired = FALSE
    /\ out_of_order = FALSE
    /\ late = {}

\* the serving side is idle: no batch request, no predict call, and the
\* loaded forecaster's mapper has resolved nothing yet
ServingIdle ==
    /\ BatchIdle
    /\ PredictIdle
    /\ zone_cache = {}

\* ------------------------------------------------------------------------
\* The location encoders: ProximityEncoder, CostOfLivingEncoder and
\* MetroPopulationEncoder
\* ------------------------------------------------------------------------
LocationEncoders == {"ProximityEncoder", "CostOfLivingEncoder", "MetroPopulationEncoder"}

\* the zones a mapper answers
Zones == 1..4

\* the locations a mapper answers for (on the others get_zone raises)
ResolvedLocations == {"NY", ""}

\* the mappers an encoder may hold
Mappers == [ResolvedLocations -> Zones]

\* MetroPopulationEncoder.population_map
population_map ==
    [zone \in Zones |-> CASE zone = 1 -> 5000000
                          [] zone = 2 -> 2000000
                          [] zone = 3 -> 500000
                          [] zone = 4 -> 100000]

\* d.get(k, default)
DictGet(d, k, default) == IF k \in DOMAIN d THEN d[k] ELSE default

\* self.mapper.get_zone(loc) inside map_loc: the mapper's answer, or its exception
MapperGetZone(mapper, location) ==
    IF GetZoneRaises(location) \/ location \notin DOMAIN mapper
    THEN Raise(Exc("Exception", <<>>), <<location>>)
    ELSE Return(mapper[location], <<location>>)

\* map_loc without its isinstance test: every value is handed to get_zone,
\* which answers for strings only
map_loc_NoGuard(encoder, mapper, loc) == MapperGetZone(mapper, loc.v)

\* transform's inner map_loc(loc) of the three encoders
map_loc(encoder, mapper, loc) ==
    IF encoder = "MetroPopulationEncoder"
    THEN IF loc.t # "str" THEN Return(population_map[4], <<>>)
         ELSE LET zone == MapperGetZone(mapper, loc.v)
              IN IF zone.raised THEN zone
                 ELSE Return(DictGet(population_map, zone.value, population_map[4]),
                             zone.trace)
    ELSE IF loc.t # "str" THEN Return(4, <<>>)
         ELSE MapperGetZone(mapper, loc.v)

RECURSIVE SeriesApply(_, _, _)
\* X.apply(map_loc): map_loc on each value in order; its exception ends the call
SeriesApply(encoder, mapper, col) ==
    IF col = <<>> THEN Return(<<>>, <<>>)
    ELSE LET first == map_loc(encoder, mapper, Head(col))
         IN IF first.raised THEN first
            ELSE LET rest == SeriesApply(encoder, mapper, Tail(col))
                 IN IF rest.raised THEN Raise(rest.value, first.trace \o rest.trace)
                    ELSE Return(<<first.value>> \o rest.value, first.trace \o rest.trace)

\* transform(X) of a location encoder
LocationTransform(encoder, mapper, X) ==
    LET col == X.columns[1]   \* X.iloc[:, 0] of a DataFrame, X itself otherwise
    IN SeriesApply(encoder, mapper, col)

\* the values a location column holds
LocationValues ==
    {StrVal("NY"), StrVal(""), StrVal("??"), NoneVal, NaNVal, IntVal("123")}

LocationColumns == UNION {[1..n -> LocationValues] : n \in 0..MaxColumn}

\* a Series, or a DataFrame whose first column is followed by another
LocationInputs ==
    {Series(col) : col \in LocationColumns}
    \cup {DataFrame(<<col, <<StrVal("NY")>> >>) : col \in LocationColumns}

\* encoder.transform(X) is called and returns or raises
LocationTransformCall ==
    /\ l_pc = "call"
    /\ l_out' = LocationTransform(l_encoder, l_mapper, l_input[1])
    /\ l_pc' = "done"
    /\ UNCHANGED <<batch_vars, predict_vars, zone_cache, train_vars, validate_vars,
                   encoder_vars, weighter_vars, normalizer_vars, analysis_vars, load_vars,
                   l_encoder, l_mapper, l_input>>

\* no location encoder is followed
LocationIdle ==
    /\ l_pc = "idle"
    /\ l_encoder = "ProximityEncoder"
    /\ l_mapper = <<>>
    /\ l_input = <<>>
    /\ l_out = NoOutcome

\* ------------------------------------------------------------------------
\* SampleWeighter (src.xgboost.preprocessing and the older src.model.preprocessing)
\* ------------------------------------------------------------------------
\* the two SampleWeighter classes: the one of src/xgboost/preprocessing.py and
\* the one of src/model/preprocessing.py, which SalaryForecaster.train uses
WeighterVariants == {"xgboost", "model"}

\* a value of a date column: a date (in days since an epoch), a missing
\* value (None, NaN, NaT) or a string no date can be parsed from
DateOn(d) == [kind |-> "date", day |-> d]

NaT == [kind |-> "NaT", day |-> 0]

NotADate == [kind |-> "text", day |-> 0]

\* a DataFrame with named columns
NamedFrame(names, cols) == [kind |-> "DataFrame", names |-> names, columns |-> cols]

\* a float: NaN or the exact ratio num/den
Ratio(n, d) == [nan |-> FALSE, num |-> n, den |-> d]

NaN == [nan |-> TRUE, num |-> 0, den |-> 1]

\* the float 1.0
One == Ratio(1, 1)

\* pd.to_datetime(X, errors='coerce'): what cannot be parsed becomes NaT
ToDatetimeCoerce(col) ==
    [j \in 1..Len(col) |-> IF col[j].kind = "text" THEN NaT ELSE col[j]]

\* pd.to_datetime(X): a string that cannot be parsed raises
ToDatetime(col) ==
    IF \E j \in 1..Len(col) : col[j].kind = "text"
    THEN Raise(Exc("ValueError", <<>>), <<>>)
    ELSE Return(col, <<>>)

\* (self.ref_date - X).dt.days / 365.25 of one row, 365.25 days being 1461/4
AgeYears(ref_date, x) ==
    IF x.kind = "NaT" THEN NaN ELSE Ratio(4 * (ref_date - x.day), 4 * 365 + 1)

\* clip left out: a future date keeps its negative age
Clip_None(x) == x

\* age_years.clip(lower=0) of one row
Clip(x) == IF ~x.nan /\ x.num < 0 THEN Ratio(0, x.den) ELSE x

\* 1 + x
OnePlus(x) == IF x.nan THEN NaN ELSE Ratio(x.den + x.num, x.den)

RECURSIVE IntPow(_, _)
IntPow(b, n) == IF n = 0 THEN 1 ELSE b * IntPow(b, n - 1)

\* a zero exponent treated as no exponent at all: x ** 0 gives x
Pow_ZeroAsOne(x, k) ==
    IF x.nan THEN NaN
    ELSE IF k >= 0 THEN Ratio(IntPow(x.num, IF k = 0 THEN 1 ELSE k),
                              IntPow(x.den, IF k = 0 THEN 1 ELSE k))
         ELSE Ratio(IntPow(x.den, 0 - k), IntPow(x.num, 0 - k))

\* x ** k for an integral k: anything to the power 0 is 1.0, NaN included
Pow(x, k) ==
    IF k = 0 THEN One
    ELSE IF x.nan THEN NaN
         ELSE IF k > 0 THEN Ratio(IntPow(x.num, k), IntPow(x.den, k))
              ELSE Ratio(IntPow(x.den, 0 - k), IntPow(x.num, 0 - k))

\* 1 / x
Reciprocal(x) == IF x.nan THEN NaN ELSE Ratio(x.den, x.num)

\* weights = 1 / (1 + age_years) ** self.k, over the parsed column
Weights(k, ref_date, dates) ==
    [j \in 1..Len(dates) |->
        Reciprocal(Pow(OnePlus(Clip(AgeYears(ref_date, dates[j]))), k))]

\* pd.Series(1.0, index=X.index)
UniformWeights(col) == [j \in 1..Len(col) |-> One]

\* the column transform reads: X itself, or of a DataFrame the date_col
\* column, the first column when there is none (src.xgboost), always the
\* first column (src.model)
DateColumn(variant, X) ==
    IF X.kind = "DataFrame" /\ variant = "xgboost"
          /\ \E c \in 1..Len(X.names) : X.names[c] = "Date"
    THEN X.columns[CHOOSE c \in 1..Len(X.names) : X.names[c] = "Date"]
    ELSE X.columns[1]

\* SampleWeighter.transform(X) of src/xgboost/preprocessing.py
WeighterTransform(k, ref_date, X) ==
    LET col      == DateColumn("xgboost", X)
        X_parsed == ToDatetimeCoerce(col)
    IN IF \A j \in 1..Len(X_parsed) : X_parsed[j].kind = "NaT"
       THEN Return(UniformWeights(col), <<>>)
       ELSE Return(Weights(k, ref_date, X_parsed), <<>>)

\* SampleWeighter.transform(X) of src/model/preprocessing.py
OlderWeighterTransform(k, ref_date, X) ==
    LET col    == DateColumn("model", X)
        parsed == ToDatetime(col)
    IN IF parsed.raised THEN parsed
       ELSE Return(Weights(k, ref_date, parsed.value), <<>>)

\* the decay parameters, the reference dates and the column values followed
DecayParameters == {0 - 1, 0, 1, 2}

RefDates == {730, 731}

DateValues == {DateOn(0), DateOn(365), DateOn(730), DateOn(1095), NaT, NotADate}

DateColumns == UNION {[1..n -> DateValues] : n \in 0..MaxColumn}

\* a Series of dates, a DataFrame with a "Date" column that is not its first
\* column, or a DataFrame without one
WeighterInputs ==
    {Series(col) : col \in DateColumns}
    \cup {NamedFrame(<<"Level", "Date">>, << <<NotADate>>, col >>) : col \in DateColumns}
    \cup {NamedFrame(<<"When">>, <<col>>) : col \in DateColumns}

\* weighter.transform(X) is called and returns or raises
WeighterTransformCall ==
    /\ w_pc = "call"
    /\ w_out' = IF w_variant = "xgboost"
                THEN WeighterTransform(w_k, w_ref_date, w_input[1])
                ELSE OlderWeighterTransform(w_k, w_ref_date, w_input[1])
    /\ w_pc' = "done"
    /\ UNCHANGED <<batch_vars, predict_vars, zone_cache, train_vars, validate_vars,
                   encoder_vars, location_vars, normalizer_vars, analysis_vars, load_vars,
                   w_variant, w_k, w_ref_date, w_input>>

\* no weighter is followed
WeighterIdle ==
    /\ w_pc = "idle"
    /\ w_variant = "xgboost"
    /\ w_k = 0
    /\ w_ref_date = 0
    /\ w_input = <<>>
    /\ w_out = NoOutcome
\* ------------------------------------------------------------------------
\* DateNormalizer
\* ------------------------------------------------------------------------
\* DateNormalizer.mode
NormalizerModes == {"normalize_recent", "least_recent"}

\* what pd.Timestamp.now() may answer during a fit: two consecutive instants,
\* later than every date of the columns
NowValues == {40, 41}

\* valid_dates = pd.to_datetime(X, errors='coerce').dropna(), as instants
ValidDates(col) ==
    LET parsed == ToDatetimeCoerce(col)
    IN {parsed[j].day : j \in {i \in 1..Len(parsed) : parsed[i].kind = "date"}}

\* valid_dates.min() and valid_dates.max()
SetMin(S) == CHOOSE m \in S : \A x \in S : m <= x

SetMax(S) == CHOOSE m \in S : \A x \in S : x <= m

\* the (min_date, max_date) pairs fit(X) may record: the extremes of the valid
\* dates, or two readings of the clock when there is no valid date
FitRanges(X) ==
    LET valid_dates == ValidDates(X.columns[1])   \* X.iloc[:, 0] of a DataFrame
    IN IF valid_dates # {}
       THEN {<<SetMin(valid_dates), SetMax(valid_dates)>>}
       ELSE {<<a, b>> \in NowValues \X NowValues : a <= b}

\* (X - self.min_date).dt.total_seconds() / date_range of one row
Scaled(min_date, date_range, x) ==
    IF x.kind = "NaT" THEN NaN ELSE Ratio(x.day - min_date, date_range)

\* normalized.fillna(0.0) of one row
FillZero(w) == IF w.nan THEN Ratio(0, 1) ELSE w

\* clip left out: a date outside the fitted range is extrapolated
ClipUnit_None(w) == w

\* normalized.clip(0.0, 1.0) of one row
ClipUnit(w) ==
    IF w.num < 0 THEN Ratio(0, 1)
    ELSE IF w.num > w.den THEN One
         ELSE w

\* transform of a fitted normalizer
Normalize(mode, min_date, max_date, X) ==
    LET col        == ToDatetimeCoerce(X.columns[1])
        date_range == max_date - min_date
        normalized == IF mode = "normalize_recent"
                      THEN [j \in 1..Len(col) |-> Scaled(min_date, date_range, col[j])]
                      ELSE [j \in 1..Len(col) |-> Scaled(min_date, date_range, col[j])]
    IN IF date_range = 0
       THEN [j \in 1..Len(col) |-> One]
       ELSE [j \in 1..Len(col) |-> ClipUnit(FillZero(normalized[j]))]

\* without the fitted test: an unfitted normalizer returns an empty result
DateNormalizerTransform_Unchecked(mode, min_date, max_date, X) ==
    IF min_date = None \/ max_date = None
    THEN Return(<<>>, <<>>)
    ELSE Return(Normalize(mode, min_date[1], max_date[1], X), <<>>)

\* DateNormalizer.transform(X)
DateNormalizerTransform(mode, min_date, max_date, X) ==
    IF min_date = None \/ max_date = None
    THEN Raise(Exc("ValueError", <<"DateNormalizer must be fitted before transform">>), <<>>)
    ELSE Return(Normalize(mode, min_date[1], max_date[1], X), <<>>)

\* the values a column given to the normalizer holds
NormalizerValues == {DateOn(0), DateOn(10), DateOn(20), NaT, NotADate}

NormalizerColumns == UNION {[1..n -> NormalizerValues] : n \in 0..MaxColumn}

\* a Series, or a DataFrame whose first column is followed by another
NormalizerInputs ==
    {Series(col) : col \in NormalizerColumns}
    \cup {DataFrame(<<col, <<NotADate>> >>) : col \in NormalizerColumns}

\* the last call made on the normalizer
Call(op, X, out) == [op |-> op, X |-> X, out |-> out]

NoCall == Call("none", <<>>, NoOutcome)

\* normalizer.fit(X) is called
NormalizerFit ==
    /\ n_pc = "ready"
    /\ n_calls < MaxCalls
    /\ \E X \in NormalizerInputs :
          /\ \E range \in FitRanges(X) :
                /\ n_min_date' = Some(range[1])
                /\ n_max_date' = Some(range[2])
          /\ n_last' = Call("fit", <<X>>, NoOutcome)
    /\ n_fitted' = TRUE
    /\ n_calls' = n_calls + 1
    /\ UNCHANGED <<batch_vars, predict_vars, zone_cache, train_vars, validate_vars,
                   encoder_vars, location_vars, weighter_vars, analysis_vars, load_vars,
                   n_pc, n_mode>>

\* normalizer.transform(X) is called and returns or raises
NormalizerTransform ==
    /\ n_pc = "ready"
    /\ n_calls < MaxCalls
    /\ \E X \in NormalizerInputs :
          n_last' = Call("transform", <<X>>,
                         DateNormalizerTransform(n_mode, n_min_date, n_max_date, X))
    /\ n_calls' = n_calls + 1
    /\ UNCHANGED <<batch_vars, predict_vars, zone_cache, train_vars, validate_vars,
                   encoder_vars, location_vars, weighter_vars, analysis_vars, load_vars,
                   n_pc, n_mode, n_min_date, n_max_date, n_fitted>>

\* no normalizer is followed
NormalizerIdle ==
    /\ n_pc = "idle"
    /\ n_mode = "normalize_recent"
    /\ n_min_date = None
    /\ n_max_date = None
    /\ n_fitted = FALSE
    /\ n_calls = 0
    /\ n_last = NoCall
\* ------------------------------------------------------------------------
\* Analysis of a cross-validation table: SalaryForecaster._analyze_cv_results
\* and training_utils.analyze_cv_results
\* ------------------------------------------------------------------------
\* the most boosting rounds a cross-validation table has
MaxRounds == 3

\* the loss values of a table
Scores == {4, 5, 6}

\* the metric columns of a table, with no round at all up to MaxRounds rounds
ScoreColumns == UNION {[1..n -> Scores] : n \in 0..MaxRounds}

\* the tables: the metric column alone, with another column beside it, or
\* only the other column
CvTables ==
    {[c \in {"test-quantile-mean"} |-> col] : col \in ScoreColumns}
    \cup {[c \in {"test-quantile-mean", "other-metric"} |->
              IF c = "test-quantile-mean" THEN col ELSE [k \in 1..Len(col) |-> k]]
          : col \in ScoreColumns}
    \cup {[c \in {"other-metric"} |-> col] : col \in ScoreColumns}

\* the metric names asked for
MetricNames == {"test-quantile-mean", "missing-metric"}

\* training_utils.analyze_cv_results(cv_results, metric_name)
analyze_cv_results(cv_results, metric_name) ==
    IF metric_name \notin DOMAIN cv_results
    THEN Raise(Exc("ValueError", <<"Metric ", metric_name, " not found in CV results columns">>),
               <<>>)
    ELSE IF Len(cv_results[metric_name]) = 0
         THEN Raise(Exc("ValueError", <<"attempt to get argmin of an empty sequence">>), <<>>)
         ELSE Return(<<ArgMin(cv_results[metric_name]) + 1, SeriesMin(cv_results[metric_name])>>,
                     <<>>)

\* the two functions
Analyzers == {"SalaryForecaster._analyze_cv_results", "training_utils.analyze_cv_results"}

\* one of the two functions is called on the table
AnalyzeCall(fn) ==
    /\ c_pc = "call"
    /\ fn \notin c_called
    /\ c_called' = c_called \cup {fn}
    /\ c_out' = [c_out EXCEPT ![fn] =
                    IF fn = "SalaryForecaster._analyze_cv_results"
                    THEN _analyze_cv_results(c_cv_results, c_metric_name)
                    ELSE analyze_cv_results(c_cv_results, c_metric_name)]
    /\ UNCHANGED <<batch_vars, predict_vars, zone_cache, train_vars, validate_vars,
                   encoder_vars, location_vars, weighter_vars, normalizer_vars, load_vars,
                   c_pc, c_cv_results, c_metric_name>>

\* no table is analyzed
AnalysisIdle ==
    /\ c_pc = "idle"
    /\ c_cv_results = <<>>
    /\ c_metric_name = MetricName
    /\ c_called = {}
    /\ c_out = [fn \in Analyzers |-> NoOutcome]
\* ------------------------------------------------------------------------
\* InferenceService.load_model and its cache
\* ------------------------------------------------------------------------
\* the most load_model calls followed on one service
MaxLoads == 4

\* the run ids asked for
RunIds == {"run_a", "run_b"}

\* what self.registry.load_model(run_id) does when it is called: it returns
\* a newly unpickled forecaster object or raises
RegistryAnswers == {"loaded", "error"}

\* ModelNotFoundError(f"Model with run_id '{run_id}' not found: {str(e)}")
ModelNotFoundError(run_id, e) ==
    Exc("ModelNotFoundError", <<"Model with run_id '", run_id, "' not found: ", e>>)

\* the loaded model is returned but not kept in self._model_cache
load_model_NoStore(cache, run_id, answer, fresh) ==
    IF run_id \in DOMAIN cache
    THEN [out |-> Return(cache[run_id], <<>>), cache |-> cache]
    ELSE IF answer = "loaded"
         THEN [out |-> Return(fresh, <<run_id>>), cache |-> cache]
         ELSE [out |-> Raise(ModelNotFoundError(run_id, "registry error"), <<run_id>>),
               cache |-> cache]

\* InferenceService.load_model(run_id) on a service whose _model_cache is
\* `cache`: what the call does (with the registry calls it made as its trace)
\* and the cache it leaves; `fresh` is the object the registry would return
load_model(cache, run_id, answer, fresh) ==
    IF run_id \in DOMAIN cache
    THEN [out |-> Return(cache[run_id], <<>>), cache |-> cache]
    ELSE IF answer = "loaded"
         THEN [out |-> Return(fresh, <<run_id>>), cache |-> DictSet(cache, run_id, fresh)]
         ELSE [out |-> Raise(ModelNotFoundError(run_id, "registry error"), <<run_id>>),
               cache |-> cache]

\* the last load_model call
Load(run_id, out) == [run_id |-> run_id, out |-> out]

NoLoad == Load("", NoOutcome)

\* inference_service.load_model(run_id) is called and returns or raises
LoadModel ==
    /\ s_pc = "ready"
    /\ s_calls < MaxLoads
    /\ \E run_id \in RunIds, answer \in RegistryAnswers :
          LET r == load_model(_model_cache, run_id, answer, s_objects + 1)
          IN /\ _model_cache' = r.cache
             /\ s_last' = Load(run_id, r.out)
             /\ registry_calls' = registry_calls \o r.out.trace
             /\ s_objects' = IF r.out.trace # <<>> /\ ~r.out.raised
                             THEN s_objects + 1 ELSE s_objects
             /\ s_loaded' = IF ~r.out.raised /\ run_id \notin DOMAIN s_loaded
                            THEN DictSet(s_loaded, run_id, r.out.value)
                            ELSE s_loaded
    /\ s_calls' = s_calls + 1
    /\ UNCHANGED <<batch_vars, predict_vars, zone_cache, train_vars, validate_vars,
                   encoder_vars, location_vars, weighter_vars, normalizer_vars,
                   analysis_vars, s_pc>>

\* no service is followed for its loads
LoadIdle ==
    /\ s_pc = "idle"
    /\ _model_cache = <<>>
    /\ registry_calls = <<>>
    /\ s_objects = 0
    /\ s_loaded = <<>>
    /\ s_calls = 0
    /\ s_last = NoLoad
\* none of the components followed on their own is active
ComponentIdle ==
    /\ LocationIdle
    /\ WeighterIdle
    /\ NormalizerIdle
    /\ AnalysisIdle
    /\ LoadIdle

\* nothing but the serving side is active
OfflineIdle ==
    /\ TrainIdle
    /\ ValidateIdle
    /\ EncoderIdle
    /\ ComponentIdle

InitPredict ==
    /\ BatchIdle
    /\ OfflineIdle
    /\ zone_cache = {}
    /\ p_pc = "call"
    /\ \E inp \in PredictInputs : p_model = inp[1] /\ p_features = inp[2]
    /\ p_fault \in FaultKinds
    /\ p_out = NoOutcome

NextPredict == PredictCall

SpecPredict == InitPredict /\ [][NextPredict]_vars

\* ------------------------------------------------------------------------
\* Specification of a training run
\* ------------------------------------------------------------------------
\* the target lists of a configuration
TargetLists == {<<"BaseSalary">>, <<"BaseSalary", "Bonus">>}

\* the quantile lists of a configuration: 1..MaxQuantiles distinct quantiles
QuantileLists ==
    UNION {{qs \in [1..n -> Quantiles] : \A j, k \in 1..n : j # k => qs[j] # qs[k]}
           : n \in 1..MaxQuantiles}

\* a fresh SalaryForecaster(config) on which train is called
InitTrain ==
    /\ ServingIdle
    /\ ComponentIdle
    /\ ValidateIdle
    /\ EncoderIdle
    /\ t_pc = "call"
    /\ t_targets \in TargetLists
    /\ t_quantiles \in QuantileLists
    /\ t_callback \in BOOLEAN
    /\ t_ti = 0
    /\ t_qi = 0
    /\ models = <<>>
    /\ events = <<>>
    /\ t_cv = <<>>
    /\ t_best = <<0, 0>>
    /\ t_raised = NoException
    /\ t_preds = <<>>

NextTrain ==
    \/ TrainEnter
    \/ EmitStart
    \/ EmitCvStart
    \/ CrossValidate
    \/ EmitCvEnd
    \/ FitAndStore
    \/ TrainedPredict

SpecTrain == InitTrain /\ [][NextTrain]_vars

\* ------------------------------------------------------------------------
\* Specification of a validation call
\* ------------------------------------------------------------------------
InitValidate ==
    /\ ServingIdle
    /\ ComponentIdle
    /\ TrainIdle
    /\ EncoderIdle
    /\ v_pc = "call"
    /\ v_model \in ValidateModels
    /\ v_features \in ValidateDicts
    /\ v_result = NoValidation

NextValidate == ValidateCall

SpecValidate == InitValidate /\ [][NextValidate]_vars

\* ------------------------------------------------------------------------
\* Specification of an encoder
\* ------------------------------------------------------------------------
InitEncoder ==
    /\ ServingIdle
    /\ ComponentIdle
    /\ TrainIdle
    /\ ValidateIdle
    /\ e_mapping \in Mappings
    /\ \E X \in TransformInputs : e_input = <<X>>
    /\ e_out = <<>>

NextEncoder == TransformCall

SpecEncoder == InitEncoder /\ [][NextEncoder]_vars

\* ------------------------------------------------------------------------
\* Specification of a location encoder
\* ------------------------------------------------------------------------
InitLocation ==
    /\ ServingIdle
    /\ TrainIdle
    /\ ValidateIdle
    /\ EncoderIdle
    /\ WeighterIdle
    /\ NormalizerIdle
    /\ AnalysisIdle
    /\ LoadIdle
    /\ l_pc = "call"
    /\ l_encoder \in LocationEncoders
    /\ l_mapper \in Mappers
    /\ \E X \in LocationInputs : l_input = <<X>>
    /\ l_out = NoOutcome

NextLocation == LocationTransformCall

SpecLocation == InitLocation /\ [][NextLocation]_vars

\* ------------------------------------------------------------------------
\* Specification of a sample weighter
\* ------------------------------------------------------------------------
InitWeighter ==
    /\ ServingIdle
    /\ TrainIdle
    /\ ValidateIdle
    /\ EncoderIdle
    /\ LocationIdle
    /\ NormalizerIdle
    /\ AnalysisIdle
    /\ LoadIdle
    /\ w_pc = "call"
    /\ w_variant \in WeighterVariants
    /\ w_k \in DecayParameters
    /\ w_ref_date \in RefDates
    /\ \E X \in WeighterInputs : w_input = <<X>>
    /\ w_out = NoOutcome

NextWeighter == WeighterTransformCall

SpecWeighter == InitWeighter /\ [][NextWeighter]_vars

\* ------------------------------------------------------------------------
\* Specification of a date normalizer
\* ------------------------------------------------------------------------
\* a fresh DateNormalizer(mode)
InitNormalizer ==
    /\ ServingIdle
    /\ TrainIdle
    /\ ValidateIdle
    /\ EncoderIdle
    /\ LocationIdle
    /\ WeighterIdle
    /\ AnalysisIdle
    /\ LoadIdle
    /\ n_pc = "ready"
    /\ n_mode \in NormalizerModes
    /\ n_min_date = None
    /\ n_max_date = None
    /\ n_fitted = FALSE
    /\ n_calls = 0
    /\ n_last = NoCall

NextNormalizer ==
    \/ NormalizerFit
    \/ NormalizerTransform

SpecNormalizer == InitNormalizer /\ [][NextNormalizer]_vars

\* ------------------------------------------------------------------------
\* Specification of the analysis of a cross-validation table
\* ------------------------------------------------------------------------
InitAnalysis ==
    /\ ServingIdle
    /\ TrainIdle
    /\ ValidateIdle
    /\ EncoderIdle
    /\ LocationIdle
    /\ WeighterIdle
    /\ NormalizerIdle
    /\ LoadIdle
    /\ c_pc = "call"
    /\ c_cv_results \in CvTables
    /\ c_metric_name \in MetricNames
    /\ c_called = {}
    /\ c_out = [fn \in Analyzers |-> NoOutcome]

NextAnalysis == \E fn \in Analyzers : AnalyzeCall(fn)

SpecAnalysis == InitAnalysis /\ [][NextAnalysis]_vars

\* ------------------------------------------------------------------------
\* Specification of a service's model cache
\* ------------------------------------------------------------------------
\* a fresh InferenceService(model_registry)
InitLoad ==
    /\ ServingIdle
    /\ TrainIdle
    /\ ValidateIdle
    /\ EncoderIdle
    /\ LocationIdle
    /\ WeighterIdle
    /\ NormalizerIdle
    /\ AnalysisIdle
    /\ s_pc = "ready"
    /\ _model_cache = <<>>
    /\ registry_calls = <<>>
    /\ s_objects = 0
    /\ s_loaded = <<>>
    /\ s_calls = 0
    /\ s_last = NoLoad

NextLoad == LoadModel

SpecLoad == InitLoad /\ [][NextLoad]_vars

\* ------------------------------------------------------------------------
\* Specification of a batch request
\* ------------------------------------------------------------------------
Init ==
    /\ PredictIdle
    /\ OfflineIdle
    /\ zone_cache = {}
    /\ features_list \in BatchLists
    /\ req_concurrency \in 0..MaxConcurrency
    /\ timeout_cfg \in {0, BATCH_INFERENCE_TIMEOUT}
    /\ loadable \in BOOLEAN
    /\ pc = "request"
    /\ concurrency = 0
    /\ results = [i \in Indices |-> None]
    /\ yielding = {}
    /\ ac_pending = {}
    /\ hpos = 0
    /\ final_results = <<>>
    /\ response = NoResponse
    /\ raised = NoException
    /\ fstate = [i \in Indices |-> "unsubmitted"]
    /\ fresult = [i \in Indices |-> None]
    /\ expired = FALSE
    /\ out_of_order = FALSE
    /\ late = {}

Next ==
    \/ RouterEnter
    \/ ServiceSubmit
    \/ ACStart
    \/ DeadlinePasses
    \/ \E i \in Indices : Collect(i)
    \/ ACCheck
    \/ ACWake
    \/ HandlerStep
    \/ HandlerEnd
    \/ ShutdownAndReturn
    \/ RouterRespond
    \/ \E i \in Indices : WorkerStart(i)
    \/ \E i \in Indices : WorkerFinish(i)

Spec == Init /\ [][Next]_vars

TypeOK ==
    /\ pc \in {"idle", "request", "call", "as_completed", "ac_yield", "ac_wait", "handler",
               "shutdown", "returned", "done", "raised"}
    /\ concurrency \in 0..BATCH_INFERENCE_CONCURRENCY
    /\ \A i \in Indices : fstate[i] \in {"unsubmitted", "pending", "running", "finished", "cancelled"}

\* ------------------------------------------------------------------------
\* Properties
\* ------------------------------------------------------------------------
\* predict_batch_parallel has returned to the endpoint
ServiceReturned ==
    \/ pc \in {"returned", "done"}
    \/ pc = "raised" /\ raised.type = "ValidationError"

\* final_results[i]
Final(i) == final_results[i + 1]

\* what predicting item i on its own gives, as an (index, result) pair
Own(i) == <<i, Predict(Forecaster, Item(i).features, Item(i).fault).value>>

C3_LateItemsTimeout ==
    (ServiceReturned /\ Timed /\ expired) =>
        /\ Len(final_results) = N
        /\ \A i \in late : Final(i) = <<i, TimeoutError(i)>>

\* the calling thread is blocked: in as_completed's wait with nothing to wake
\* it, or in the executor's shutdown with work still queued or running
Blocked ==
    \/ pc = "ac_wait" /\ ~(Timed /\ expired) /\ \A i \in ac_pending : ~Done(i)
    \/ pc = "shutdown" /\ \E i \in Indices : fstate[i] \in {"pending", "running"}

\* C4 (as claimed): the caller is blocked only while some item is incomplete
\* and the timeout has not elapsed
C4_BlockedOnlyUntilTimeout ==
    Blocked => (~(Timed /\ expired) /\ \E i \in Indices : ~Done(i))

\* the bound the endpoint promises for its worker pool
PromisedConcurrency ==
    IF req_concurrency = 0 THEN BATCH_INFERENCE_CONCURRENCY
    ELSE IF req_concurrency < BATCH_INFERENCE_CONCURRENCY THEN req_concurrency
    ELSE BATCH_INFERENCE_CONCURRENCY

\* C5: at every moment at most min(requested, BATCH_INFERENCE_CONCURRENCY)
\* predictions execute (the ceiling itself when nothing is requested), and the
\* pool is created with the clamped value
C5_BoundedConcurrency ==
    /\ Running <= PromisedConcurrency
    /\ Running <= BATCH_INFERENCE_CONCURRENCY
    /\ ExecutorAlive => concurrency = PromisedConcurrency

\* a request above the ceiling runs with the ceiling's worth of predictions
\* executing while a further item waits in the queue
C5_Witness ==
    /\ req_concurrency > BATCH_INFERENCE_CONCURRENCY
    /\ Running = BATCH_INFERENCE_CONCURRENCY
    /\ \E i \in Indices : fstate[i] = "pending"

\* a success item: status 200, a prediction, no error
IsSuccessItem(item) ==
    item.status_code = 200 /\ item.prediction # None /\ item.error = None

\* a failure item: another status, an error message, no prediction
IsFailureItem(item) ==
    item.status_code # 200 /\ item.prediction = None /\ item.error # None

\* C6: a batch response has one item per input index in ascending order,
\* each a success or a failure; the counts add up to the number of inputs and
\* predictions holds the successful predictions in index order
C6_ResponseShape ==
    pc = "done" =>
        LET succ == {k \in 1..N : IsSuccessItem(response.items[k])}
            fail == {k \in 1..N : IsFailureItem(response.items[k])}
            \* position of item k's prediction among the successes
            rank(k) == Cardinality({j \in succ : j <= k})
        IN /\ Len(response.items) = N
           /\ \A k \in 1..N : response.items[k].index = k - 1
           /\ succ \cup fail = 1..N
           /\ succ \cap fail = {}
           /\ response.success_count = Cardinality(succ)
           /\ response.failure_count = Cardinality(fail)
           /\ response.success_count + response.failure_count = response.total
           /\ response.total = N
           /\ Len(response.predictions) = response.success_count
           /\ \A k \in succ : response.predictions[rank(k)] = response.items[k].prediction[1]

\* a three-item response with both successes and failures
C6_Witness ==
    /\ pc = "done"
    /\ N = 3
    /\ response.success_count = 2
    /\ response.failure_count = 1
    /\ IsFailureItem(response.items[1])

\* C7 (as claimed): the batch call raises only when the model cannot be
\* loaded, and then no prediction was attempted
C7_FailsOnlyOnLoad ==
    pc = "raised" =>
        /\ ~loadable
        /\ \A i \in Indices : fstate[i] = "unsubmitted"

\* the kind of failure item i actually had, from what happened to it
FailureKind(i) ==
    IF Final(i) = <<i, TimeoutError(i)>> THEN "timeout"
    ELSE IF Final(i) = <<i, NotCompletedError(i)>> THEN "not_completed"
    ELSE IF ~validate_input_features(Forecaster, Item(i).features).is_valid THEN "validation"
    ELSE IF Item(i).fault # "none" THEN "internal"
    ELSE "success"

\* C8 (as claimed): in a response, two failed items of different kinds among
\* validation failure, timeout and internal error carry different status
\* classifications
C8_DistinctClassification ==
    pc = "done" =>
        \A i, j \in Indices :
            (/\ FailureKind(i) \in {"validation", "timeout", "internal"}
             /\ FailureKind(j) \in {"validation", "timeout", "internal"}
             /\ FailureKind(i) # FailureKind(j))
            => response.items[i + 1].status_code # response.items[j + 1].status_code

\* C9: predict returns a PredictionResult or raises InvalidInputError,
\* whatever validation finds and whatever the forecaster raises
C9_OnlyInvalidInputError ==
    p_pc = "done" =>
        \/ ~p_out.raised /\ p_out.value.type = "PredictionResult"
        \/ p_out.raised /\ p_out.value.type = "InvalidInputError"

\* a valid row on which the forecaster raised has come out as InvalidInputError
C9_Witness ==
    /\ p_pc = "done"
    /\ validate_input_features(p_model, p_features).is_valid
    /\ p_fault = "KeyError"
    /\ p_out.raised
    /\ p_out.value.type = "InvalidInputError"
    /\ StartsWith(p_out.value.msg, <<"Prediction failed: ">>)

\* C10: predict validates first; on a failed validation it raises
\* InvalidInputError whose message contains every collected error, and
\* neither builds the frame nor calls the forecaster
C10_ValidationFirst ==
    p_pc = "done" =>
        LET validation_result == validate_input_features(p_model, p_features)
        IN /\ p_out.trace[1] = "validate_input_features"
           /\ ~validation_result.is_valid =>
                 /\ p_out.raised
                 /\ p_out.value.type = "InvalidInputError"
                 /\ \A k \in 1..Len(validation_result.errors) :
                        Contains(p_out.value.msg, validation_result.errors[k])
                 /\ p_out.trace = <<"validate_input_features">>

\* a row with three distinct problems was rejected with all three reported
C10_Witness ==
    /\ p_pc = "done"
    /\ Len(validate_input_features(p_model, p_features).errors) = 3
    /\ p_fault # "none"
    /\ p_out.raised
    /\ p_out.trace = <<"validate_input_features">>

\* the values among the modelled ones that are numeric or that float() accepts
NumericCoercible == {IntVal("5"), StrVal("5"), StrVal("7"), NaNVal}

\* the supplied values of the given names that satisfy Bad
Offending(names, features, Bad(_, _)) ==
    {c \in SeqToSet(names) \cap DOMAIN features : Bad(c, features[c])}

\* C11: validation never stops at the first problem: the error list has one
\* entry for every feature group with a required name missing (naming all the
\* missing names of the group), one for every supplied ranked value outside
\* the vocabulary of its encoder, one for every supplied numerical value that
\* is neither a number nor coercible to one, and nothing else; is_valid is
\* true exactly when the list is empty
C11_AllErrorsReported ==
    v_pc = "done" =>
        LET schema == ModelSchema(v_model)
            errs == v_result.errors
            group(label) == CASE label = "ranked" -> schema.ranked_features
                              [] label = "proximity" -> schema.proximity_features
                              [] OTHER -> schema.numerical_features
            missing(label) == SeqToSet(group(label)) \ DOMAIN v_features
            missingGroups == {label \in {"ranked", "proximity", "numerical"} :
                                 missing(label) # {}}
            unknown(c, val) ==
                ~(val.t = "str" /\ val.v \in SeqToSet(MappingKeys(RankedEncoder(v_model, c).mapping)))
            notNumeric(c, val) == val \notin NumericCoercible
            badRanked == Offending(schema.ranked_features, v_features, unknown)
            badNumerical == Offending(schema.numerical_features, v_features, notNumeric)
            entries(prefix) == {k \in 1..Len(errs) : StartsWith(errs[k], prefix)}
        IN /\ Len(errs) = Cardinality(missingGroups) + Cardinality(badRanked)
                          + Cardinality(badNumerical)
           /\ \A label \in missingGroups :
                 /\ Cardinality(entries(<<"Missing ", label, " features: ">>)) = 1
                 /\ \A k \in entries(<<"Missing ", label, " features: ">>) :
                        \A h \in missing(label) : Contains(errs[k], <<h>>)
           /\ \A c \in badRanked :
                 Cardinality(entries(<<"Invalid value for ranked feature '", c>>)) = 1
           /\ \A c \in badNumerical :
                 Cardinality(entries(<<"Invalid value for numerical feature '", c>>)) = 1
           /\ v_result.is_valid <=> (errs = <<>>)

\* a dict with two ranked names missing, an unknown ranked value and a
\* non-numeric numerical value was validated: three entries, one per problem
\* group, none lost
C11_Witness ==
    /\ v_pc = "done"
    /\ Len(v_result.errors) >= 2
    /\ ~v_result.is_valid
    /\ \E k \in 1..Len(v_result.errors) :
          /\ StartsWith(v_result.errors[k], <<"Missing ", "ranked", " features: ">>)
          /\ Contains(v_result.errors[k], <<"Level">>)
          /\ Contains(v_result.errors[k], <<"Location">>)
    /\ \E k \in 1..Len(v_result.errors) :
          StartsWith(v_result.errors[k], <<"Invalid value for numerical feature '">>)

\* C12: a supplied ranked value that is no key of its encoder's mapping makes
\* predict raise InvalidInputError naming the feature, although the encoder's
\* transform accepts the same value and encodes it as -1; so a call that
\* returned a PredictionResult had every ranked feature encoded as a rank of
\* the mapping, never as the unknown sentinel
C12_UnknownRankRejected ==
    p_pc = "done" =>
        \A c \in SeqToSet(ModelSchema(p_model).ranked_features) \cap DOMAIN p_features :
            LET mapping == RankedEncoder(p_model, c).mapping
                val == p_features[c]
                isKey == val.t = "str" /\ val.v \in SeqToSet(MappingKeys(mapping))
                encoded == transform(mapping, Series(<<val>>))
            IN /\ ~isKey =>
                    /\ encoded = <<UnknownRank>>
                    /\ p_out.raised
                    /\ p_out.value.type = "InvalidInputError"
                    /\ Contains(p_out.value.msg, <<"Invalid value for ranked feature '", c>>)
               /\ ~p_out.raised => (Len(encoded) = 1 /\ encoded[1] >= 0)

\* a row whose only problem is the unknown level XX, which the encoder would
\* have encoded as -1, was rejected
C12_Witness ==
    /\ p_pc = "done"
    /\ p_fault = "none"
    /\ "Level" \in DOMAIN p_features
    /\ p_features["Level"] = StrVal("XX")
    /\ transform(RankedEncoder(p_model, "Level").mapping, Series(<<StrVal("XX")>>)) = <<UnknownRank>>
    /\ Len(validate_input_features(p_model, p_features).errors) = 1
    /\ p_out.raised

\* training has come to its end
Trained == t_pc \in {"done", "predicted"}

\* the (target, quantile) pairs of the configuration
ConfiguredPairs == SeqToSet(t_targets) \X SeqToSet(t_quantiles)

\* the bank holds models for some of the configured pairs and not for others
PartialBank ==
    /\ \E pr \in ConfiguredPairs : ModelName(pr[1], pr[2]) \in DOMAIN models
    /\ \E pr \in ConfiguredPairs : ModelName(pr[1], pr[2]) \notin DOMAIN models

PyRound(x) == IF x.near_next THEN x.whole + 1 ELSE x.whole

\* the label the specification gives a quantile: round(q * 100)
RoundPercent(q) == PyRound(FloatTimes100(q))

\* C14 (as claimed): after a training that completed, with quantiles whose
\* percent labels round(q * 100) are distinct, the bank holds exactly one
\* model for every configured (target, quantile) pair and nothing else
C14_OneModelPerPair ==
    (/\ Trained
     /\ \A j, k \in 1..Len(t_quantiles) :
           j # k => RoundPercent(t_quantiles[j]) # RoundPercent(t_quantiles[k]))
    => /\ Cardinality(DOMAIN models) = Len(t_targets) * Len(t_quantiles)
       /\ \A pr \in ConfiguredPairs :
             \E name \in DOMAIN models :
                 /\ models[name].target = pr[1]
                 /\ models[name].quantile_alpha = pr[2]

\* the pair the k-th iteration of the loops is about: targets outer,
\* quantiles inner
PairOf(k) ==
    <<t_targets[((k - 1) \div Len(t_quantiles)) + 1],
      t_quantiles[((k - 1) % Len(t_quantiles)) + 1]>>

\* C15: the callback receives, pair after pair in configuration order
\* (targets outer, quantiles inner), exactly start{model_name}, cv_start,
\* cv_end{model_name, best_round, best_score, metric_name}, the three events
\* of a pair next to each other; a completed training has sent all of them
C15_EventOrder ==
    t_callback =>
        /\ \A j \in 1..Len(events) :
              LET k == ((j - 1) \div 3) + 1
                  phase == (j - 1) % 3
              IN /\ k <= Len(t_targets) * Len(t_quantiles)
                 /\ CASE phase = 0 ->
                           /\ DOMAIN events[j] = {"stage", "model_name"}
                           /\ events[j].stage = "start"
                           /\ events[j].model_name = ModelName(PairOf(k)[1], PairOf(k)[2])
                      [] phase = 1 ->
                           /\ DOMAIN events[j] = {"stage"}
                           /\ events[j].stage = "cv_start"
                      [] OTHER ->
                           /\ DOMAIN events[j] = {"stage", "model_name", "best_round",
                                                  "best_score", "metric_name"}
                           /\ events[j].stage = "cv_end"
                           /\ events[j].model_name = events[j - 2].model_name
                           /\ events[j].best_round >= 1
                           /\ events[j].metric_name = "test-quantile-mean"
        /\ Trained => Len(events) = 3 * Len(t_targets) * Len(t_quantiles)

\* a training of two targets and two quantiles has completed and the callback
\* has received the twelve events
C15_Witness ==
    /\ t_pc = "done"
    /\ t_callback
    /\ Len(t_targets) = 2
    /\ Len(t_quantiles) = 2
    /\ Len(events) = 12
    /\ events[4].stage = "start"
    /\ events[4].model_name # events[1].model_name

\* C16 (as claimed): every model is stored under '{target}_p{round(q*100)}'
\* and every prediction is reported under 'p' + round(q*100)
C16_RoundedLabels ==
    /\ \A name \in DOMAIN models :
          name = <<models[name].target, "_", "p",
                   ToString(RoundPercent(models[name].quantile_alpha))>>
    /\ t_pc = "predicted" =>
          \A pr \in ConfiguredPairs :
              <<"p", ToString(RoundPercent(pr[2]))>> \in DOMAIN t_preds[pr[1]]

\* C19 (as claimed): in what a trained forecaster predicts for a row, the
\* value of a lower quantile never exceeds the value of a higher quantile of
\* the same target
C19_QuantileOrdering ==
    t_pc = "predicted" =>
        \A t \in SeqToSet(t_targets) :
            \A q1, q2 \in SeqToSet(t_quantiles) :
                (/\ q1 < q2
                 /\ QuantileLabel(q1) \in DOMAIN t_preds[t]
                 /\ QuantileLabel(q2) \in DOMAIN t_preds[t])
                => t_preds[t][QuantileLabel(q1)][1] <= t_preds[t][QuantileLabel(q2)][1]

\* the input supplies a value for the feature that the geo-proximity lookup
\* resolves: a non-empty string on which get_zone does not raise
SuppliesLocation(features, c) ==
    /\ c \in DOMAIN features
    /\ Truthy(features[c])
    /\ ~GetZoneRaises(features[c].v)

\* C17 (as claimed): a PredictionResult has one entry per configured target,
\* each mapping the label of every configured quantile to one number; its
\* metadata lists the model's targets and quantiles, and carries the resolved
\* zone whenever the model has a proximity feature for which the input
\* supplies a value
C17_SuccessShape ==
    (p_pc = "done" /\ ~p_out.raised) =>
        LET res == p_out.value
        IN /\ DOMAIN res.predictions = SeqToSet(p_model.targets)
           /\ \A t \in DOMAIN res.predictions :
                 /\ DOMAIN res.predictions[t] = SeqToSet(p_model.quantiles)
                 /\ \A l \in DOMAIN res.predictions[t] : res.predictions[t][l] \in Int
           /\ res.metadata.model_targets = p_model.targets
           /\ res.metadata.model_quantiles = p_model.quantiles
           /\ \A c \in SeqToSet(Keys(p_model.proximity_encoders)) :
                 SuppliesLocation(p_features, c) =>
                     /\ HasZone(res.metadata)
                     /\ res.metadata["location_zone"] = get_zone(p_features[c].v)

\* C18 (as claimed): no step of serving a batch request changes the state of
\* the loaded forecaster, here the zone_cache of the geo-proximity mapper
\* inside its proximity encoder
C18_PredictionReadOnly == [][zone_cache' = zone_cache]_vars

\* the rank transform must give a value under a mapping: the rank of the key
\* equal to it, -1 when no key is
ExpectedRank(mapping, val) ==
    IF \E j \in 1..Len(mapping) : val.t = "str" /\ val.v = mapping[j][1]
    THEN mapping[CHOOSE j \in 1..Len(mapping) : val.v = mapping[j][1]][2]
    ELSE 0 - 1

\* C20: every call of transform returns, for each value of the (first) column,
\* the rank of the value when it is a key of the mapping and -1 otherwise
\* (None, NaN and the empty string included), returns what every earlier call
\* on the same input returned, and leaves the mapping as it was
C20_TransformTotalDeterministic ==
    [][(e_out' # e_out) =>
          LET col == e_input[1].columns[1]
              r == e_out'[Len(e_out')]
          IN /\ Len(r) = Len(col)
             /\ \A k \in 1..Len(col) : r[k] = ExpectedRank(e_mapping, col[k])
             /\ \A j \in 1..Len(e_out) : e_out[j] = r
             /\ e_mapping' = e_mapping]_vars

\* a column holding a known level and NaN was transformed twice, both times
\* to the level's rank and -1
C20_Witness ==
    /\ e_input # <<>>
    /\ e_input[1].columns[1] = <<StrVal("E5"), NaNVal>>
    /\ Len(e_mapping) = 3
    /\ e_out = << <<2, 0 - 1>>, <<2, 0 - 1>> >>

\* the bucket a zone stands for in an encoder's output: the zone itself, or
\* for MetroPopulationEncoder the population of that zone
BucketOf(encoder, zone) ==
    IF encoder = "MetroPopulationEncoder"
    THEN CASE zone = 1 -> 5000000
           [] zone = 2 -> 2000000
           [] zone = 3 -> 500000
           [] zone = 4 -> 100000
    ELSE zone

\* the string values of a column, in order
StringsOf(col) ==
    LET strs == SelectSeq(col, LAMBDA loc : loc.t = "str")
    IN [k \in 1..Len(strs) |-> strs[k].v]

\* C21: transform of ProximityEncoder, CostOfLivingEncoder and
\* MetroPopulationEncoder hands only the string values of the column to the
\* geo-proximity capability, never a non-string one (None, NaN, a number);
\* unless the capability itself raises on one of the strings the call returns
\* one bucket per row: the default bucket (zone 4, or the zone-4 population
\* for MetroPopulationEncoder) for every non-string value and the bucket of
\* the zone the capability answers for every string value.
C21_MalformedLocationsDefault ==
    l_pc = "done" =>
        LET col  == l_input[1].columns[1]
            strs == StringsOf(col)
        IN /\ Len(l_out.trace) <= Len(strs)
           /\ \A k \in 1..Len(l_out.trace) : l_out.trace[k] = strs[k]
           /\ (\A k \in 1..Len(strs) : strs[k] \in DOMAIN l_mapper) =>
                 /\ ~l_out.raised
                 /\ l_out.trace = strs
                 /\ Len(l_out.value) = Len(col)
                 /\ \A k \in 1..Len(col) :
                        l_out.value[k] =
                            IF col[k].t = "str"
                            THEN BucketOf(l_encoder, l_mapper[col[k].v])
                            ELSE BucketOf(l_encoder, 4)

\* a population encoder has encoded a column holding NaN and a resolvable
\* string that is not in zone 4
C21_Witness ==
    /\ l_pc = "done"
    /\ l_encoder = "MetroPopulationEncoder"
    /\ ~l_out.raised
    /\ \E j, k \in 1..Len(l_input[1].columns[1]) :
          /\ l_input[1].columns[1][j] = NaNVal
          /\ l_input[1].columns[1][k] = StrVal("NY")
          /\ l_mapper["NY"] = 2

\* the column a weighter call computed its weights from
WeighedColumn == DateColumn(w_variant, w_input[1])

\* the float is 1.0
IsOne(w) == ~w.nan /\ w.num = w.den

\* C22: for every decay parameter k, SampleWeighter.transform gives a row
\* dated after the reference date the weight 1.0, which is also the weight of
\* a row dated on the reference date (age 0): the age is clipped to 0 before
\* the weight is computed.
C22_FutureDatesAgeZero ==
    (w_pc = "done" /\ ~w_out.raised) =>
        \A j \in 1..Len(WeighedColumn) :
            (WeighedColumn[j].kind = "date" /\ WeighedColumn[j].day > w_ref_date) =>
                /\ IsOne(w_out.value[j])
                /\ \A i \in 1..Len(WeighedColumn) :
                      (WeighedColumn[i].kind = "date" /\ WeighedColumn[i].day = w_ref_date)
                          => w_out.value[i] = w_out.value[j]

\* with k = 2 a column holding a future date, the reference date and an
\* older date was weighted, and the older row weighs less than 1.0
C22_Witness ==
    /\ w_pc = "done"
    /\ ~w_out.raised
    /\ w_k = 2
    /\ \E i, j \in 1..Len(WeighedColumn) :
          /\ WeighedColumn[j].kind = "date" /\ WeighedColumn[j].day > w_ref_date
          /\ WeighedColumn[i].kind = "date" /\ WeighedColumn[i].day < w_ref_date
          /\ ~IsOne(w_out.value[i])
          /\ IsOne(w_out.value[j])

\* C23: with k = 0 every weight SampleWeighter.transform returns is 1.0, one
\* per row, whatever the row's date: before, on or after the reference date.
C23_ZeroDecayUniform ==
    (w_pc = "done" /\ ~w_out.raised /\ w_k = 0) =>
        /\ Len(w_out.value) = Len(WeighedColumn)
        /\ \A j \in 1..Len(WeighedColumn) : IsOne(w_out.value[j])

\* with k = 0 a column holding a date before and a date after the reference
\* date was weighted
C23_Witness ==
    /\ w_pc = "done"
    /\ ~w_out.raised
    /\ w_k = 0
    /\ \E i, j \in 1..Len(WeighedColumn) :
          /\ WeighedColumn[j].kind = "date" /\ WeighedColumn[j].day > w_ref_date
          /\ WeighedColumn[i].kind = "date" /\ WeighedColumn[i].day < w_ref_date

\* C24: SampleWeighter.transform on a column in which no value can be parsed
\* as a date does not raise and returns the weight 1.0 for every row, one
\* weight per row, whichever of the two SampleWeighter classes is used (the
\* training orchestrator uses the one of src/model/preprocessing.py).
C24_UnparseableColumnUniform ==
    (w_pc = "done" /\ \A j \in 1..Len(WeighedColumn) : WeighedColumn[j].kind # "date") =>
        /\ ~w_out.raised
        /\ Len(w_out.value) = Len(WeighedColumn)
        /\ \A j \in 1..Len(WeighedColumn) : IsOne(w_out.value[j])

\* the dates of the column a normalizer call was given
DatesGiven(call) ==
    LET col == call.X[1].columns[1]
    IN {col[j].day : j \in {i \in 1..Len(col) : col[i].kind = "date"}}

\* C25: a transform call on a DateNormalizer raises ValueError exactly when
\* fit has never been called on it, and returns otherwise; a transform call
\* leaves min_date and max_date as they were; every fit call, the first or
\* a later one, sets them to the earliest and latest date of its own
\* argument (to two readings of the clock when the argument has no date).
C25_TransformNeedsFit ==
    [][/\ (n_calls' # n_calls /\ n_last'.op = "transform") =>
             /\ n_last'.out.raised <=> ~n_fitted
             /\ n_last'.out.raised => n_last'.out.value.type = "ValueError"
             /\ n_min_date' = n_min_date
             /\ n_max_date' = n_max_date
       /\ (n_calls' # n_calls /\ n_last'.op = "fit") =>
             /\ n_min_date' # None
             /\ n_max_date' # None
             /\ IF DatesGiven(n_last') # {}
                THEN /\ n_min_date'[1] \in DatesGiven(n_last')
                     /\ n_max_date'[1] \in DatesGiven(n_last')
                     /\ \A d \in DatesGiven(n_last') :
                           n_min_date'[1] <= d /\ d <= n_max_date'[1]
                ELSE /\ n_min_date'[1] \in NowValues
                     /\ n_max_date'[1] \in NowValues
                     /\ n_min_date'[1] <= n_max_date'[1]]_vars

\* transform was called on a normalizer that was never fitted, and raised
C25_Witness ==
    /\ n_last.op = "transform"
    /\ ~n_fitted
    /\ n_last.out.raised
    /\ n_min_date = None

\* C26: a transform call on a fitted DateNormalizer returns one value per
\* row, each in [0,1]; when the fitted min_date is before the fitted max_date
\* the min_date gives 0.0, the max_date gives 1.0, a date between them gives
\* (date - min_date) / (max_date - min_date), and a later date never gives a
\* smaller value than an earlier one (dates outside the range are clipped);
\* when min_date equals max_date every value is 1.0.
C26_LinearUnitRange ==
    (n_last.op = "transform" /\ ~n_last.out.raised) =>
        LET col == n_last.X[1].columns[1]
            out == n_last.out.value
            lo  == n_min_date[1]
            hi  == n_max_date[1]
        IN /\ Len(out) = Len(col)
           /\ \A j \in 1..Len(out) :
                 ~out[j].nan /\ out[j].den > 0 /\ 0 <= out[j].num /\ out[j].num <= out[j].den
           /\ lo = hi => \A j \in 1..Len(out) : IsOne(out[j])
           /\ lo < hi =>
                 \A j \in 1..Len(col) :
                    col[j].kind = "date" =>
                       /\ col[j].day = lo => out[j].num = 0
                       /\ col[j].day = hi => IsOne(out[j])
                       /\ (lo <= col[j].day /\ col[j].day <= hi) =>
                             out[j].num * (hi - lo) = (col[j].day - lo) * out[j].den
                       /\ \A i \in 1..Len(col) :
                             (col[i].kind = "date" /\ col[i].day <= col[j].day) =>
                                 out[i].num * out[j].den <= out[j].num * out[i].den

\* a normalizer fitted on more than one date has normalized a column holding
\* a date before its min_date and its max_date, to 0.0 and 1.0
C26_Witness ==
    /\ n_last.op = "transform"
    /\ ~n_last.out.raised
    /\ n_min_date[1] < n_max_date[1]
    /\ \E i, j \in 1..Len(n_last.X[1].columns[1]) :
          /\ n_last.X[1].columns[1][i].kind = "date"
          /\ n_last.X[1].columns[1][i].day < n_min_date[1]
          /\ n_last.out.value[i].num = 0
          /\ n_last.X[1].columns[1][j].kind = "date"
          /\ n_last.X[1].columns[1][j].day = n_max_date[1]
          /\ IsOne(n_last.out.value[j])

\* C27: in the list predict_batch_parallel returns, an item whose worker
\* finished its prediction, before or after the deadline, is reported with
\* that worker's own outcome or as a timeout of that item; 'Prediction not
\* completed' is reported only for an item whose prediction never ran.
C27_NotCompletedOnlyIfNeverRun ==
    ServiceReturned =>
        \A i \in Indices :
            fstate[i] = "finished" =>
                \/ Final(i) = Own(i)
                \/ Final(i) = <<i, TimeoutError(i)>>

\* r is the 1-based position of the first smallest value of the column
FirstMinimum(col, r) ==
    /\ r \in 1..Len(col)
    /\ \A j \in 1..Len(col) : col[r] <= col[j]
    /\ \A j \in 1..(r - 1) : col[j] > col[r]

\* C28: whenever a model is put into the bank, the cross-validation of the
\* pair being trained has finished (its table is at hand and, with a
\* callback, its cv_end event is the last event sent), the model is stored
\* under that pair's name, and it is the booster of a refit for that pair's
\* target and quantile whose round count is the best_round selected from that
\* table, the value the cv_end event reports; it is never the
\* cross-validation table itself.
C28_RefitWithSelectedRounds ==
    [][\A name \in DOMAIN models' :
          (name \notin DOMAIN models \/ models'[name] # models[name]) =>
              /\ t_pc = "fit"
              /\ name = ModelName(CurTarget, CurQuantile)
              /\ MetricName \in DOMAIN t_cv
              /\ FirstMinimum(t_cv[MetricName], models'[name].num_boost_round)
              /\ models'[name].target = CurTarget
              /\ models'[name].quantile_alpha = CurQuantile
              /\ models'[name] # t_cv
              /\ t_callback =>
                    /\ events # <<>>
                    /\ events[Len(events)].stage = "cv_end"
                    /\ events[Len(events)].model_name = name
                    /\ events[Len(events)].best_round = models'[name].num_boost_round]_vars

\* a run with a callback has stored a model refit with 2 rounds and a model
\* refit with 1 round, and has reported both round counts
C28_Witness ==
    /\ t_pc = "done"
    /\ t_callback
    /\ \E a, b \in DOMAIN models :
          /\ models[a].num_boost_round = 2
          /\ models[b].num_boost_round = 1
    /\ \E j, k \in 1..Len(events) :
          /\ events[j].stage = "cv_end" /\ events[j].best_round = 2
          /\ events[k].stage = "cv_end" /\ events[k].best_round = 1

\* C29: on every table and metric name SalaryForecaster._analyze_cv_results
\* and training_utils.analyze_cv_results do the same; when the metric column
\* is absent they raise ValueError; when it is there, with at least one
\* round, they return (best_round, best_score) where best_round is 1 plus the
\* zero-based index of the smallest value of the column, the earliest one on
\* ties, so 1 <= best_round <= number of rounds, and best_score is that
\* smallest value.
C29_BestRoundIsFirstMinimum ==
    (c_pc = "call" /\ c_called = Analyzers) =>
        LET method == c_out["SalaryForecaster._analyze_cv_results"]
            util   == c_out["training_utils.analyze_cv_results"]
        IN /\ method = util
           /\ c_metric_name \notin DOMAIN c_cv_results =>
                 method.raised /\ method.value.type = "ValueError"
           /\ (c_metric_name \in DOMAIN c_cv_results /\ Len(c_cv_results[c_metric_name]) >= 1) =>
                 LET col == c_cv_results[c_metric_name]
                 IN /\ ~method.raised
                    /\ 1 <= method.value[1]
                    /\ method.value[1] <= Len(col)
                    /\ FirstMinimum(col, method.value[1])
                    /\ method.value[2] = col[method.value[1]]
                    /\ \A j \in 1..Len(col) : method.value[2] <= col[j]

\* both functions were called on a table whose smallest loss occurs twice,
\* the first time in the second round
C29_Witness ==
    /\ c_pc = "call"
    /\ c_called = Analyzers
    /\ c_metric_name \in DOMAIN c_cv_results
    /\ c_cv_results[c_metric_name] = <<5, 4, 4>>
    /\ c_out["training_utils.analyze_cv_results"].value = <<2, 4>>

\* C30: in every load_model(run_id) call on one InferenceService: if an
\* earlier load of that run_id succeeded, the call returns the object that
\* load returned and the registry is not called; otherwise the registry is
\* called once for that run_id; a call that fails raises ModelNotFoundError
\* and leaves the cache as it was.
C30_LoadedModelsCached ==
    [][s_calls' # s_calls =>
          LET run_id == s_last'.run_id
              out    == s_last'.out
          IN /\ run_id \in DOMAIN s_loaded =>
                   /\ ~out.raised
                   /\ out.value = s_loaded[run_id]
                   /\ registry_calls' = registry_calls
             /\ run_id \notin DOMAIN s_loaded =>
                   registry_calls' = Append(registry_calls, run_id)
             /\ out.raised =>
                   /\ out.value.type = "ModelNotFoundError"
                   /\ _model_cache' = _model_cache]_vars

\* a load of a run failed, the next load of it succeeded through a second
\* registry call, and a load after that returned the same object with no
\* further registry call
C30_Witness ==
    /\ s_calls = 3
    /\ registry_calls = <<"run_a", "run_a">>
    /\ "run_a" \in DOMAIN s_loaded
    /\ s_last.run_id = "run_a"
    /\ ~s_last.out.raised
    /\ s_last.out.value = s_loaded["run_a"]

====
